---- MODULE Spec2Model ----
(***************************************************************************)
(* Model of the diff / match / patch engine bundled in                     *)
(* src/unnamed/part_004 (diff_match_patch2, lines 1963-3350).              *)
(*                                                                         *)
(* Texts are sequences of character codes.  An edit is the pair            *)
(* <<op, text>> of the source's Diff(op, text) (a two element array), an   *)
(* edit script is a sequence of edits.  JavaScript arrays and strings are  *)
(* 0-based; the helpers below keep the source's 0-based indices and        *)
(* translate to the 1-based sequences of TLA+ in one place.                *)
(*                                                                         *)
(* Time: the source reads the wall clock once per bisection iteration and  *)
(* compares it with a deadline fixed when the top-level diff_main call     *)
(* starts.  The clock is monotonic, so the outcomes of the successive      *)
(* reads of one top-level call are "not expired" n times and "expired"     *)
(* from then on.  The deadline is therefore modelled as n, the number of   *)
(* clock reads that still precede it; every timed function returns the     *)
(* script together with the reads left.                                    *)
(***************************************************************************)
EXTENDS Integers, Sequences, FiniteSets, TLC

VARIABLES
  Diff_Timeout,   \* this.Diff_Timeout, a tunable field of the instance
  pc,             \* the last operation the caller ran
  A,              \* the caller's first text
  B,              \* the caller's second text
  opt_checklines, \* the caller's checklines argument
  script,         \* the caller's edit script
  patchSeq,       \* the caller's patch sequence
  applied,        \* what patch_apply returned
  target,         \* the text the patches are applied to
  outcome         \* what the last other call returned, or that it threw

vars ==
  <<Diff_Timeout, pc, A, B, opt_checklines, script, patchSeq, applied, target,
    outcome>>

\* ------------------------------------------------------------------------
\* Bounds of the model
\* ------------------------------------------------------------------------
MaxLen == 4

MaxClock == 2

\* patches are made of all texts of at most MaxPatchLen characters
MaxPatchLen == 3

\* the long text patches are made of has LongLen characters
LongLen == 40

\* patches are applied to all texts of at most MaxTarget characters
MaxTarget == 2

\* edit scripts given to the cleanups have at most MaxEdits edits of at most
\* MaxEditLen characters
MaxEdits == 4

MaxEditLen == 1

\* deltas are made of all well formed texts of at most MaxDeltaLen code units
MaxDeltaLen == 2

\* the clock reads a caller's own deadline leaves at most
MaxDeadline == 3

\* clock reads that no diff of the texts of the model uses up
ManyReads == 20

\* ------------------------------------------------------------------------
\* Program constants
\* ------------------------------------------------------------------------
DIFF_DELETE == -1

DIFF_INSERT == 1

DIFF_EQUAL == 0

Diff_EditCost == 4

Match_Distance == 1000

Patch_Margin == 4

Match_MaxBits == 32

\* Match_Threshold and Patch_DeleteThreshold are both 0.5 = 1 / HalfDen.
HalfDen == 2

\* Number.MAX_VALUE as a deadline: more clock reads than any run performs.
MAX_VALUE == 1000000

\* line-mode is entered when both texts are longer than this
LineModeMin == 100

\* ------------------------------------------------------------------------
\* JavaScript string and array primitives
\* ------------------------------------------------------------------------
Min(a, b) == IF a < b THEN a ELSE b

Max(a, b) == IF a > b THEN a ELSE b

Abs(a) == IF a < 0 THEN -a ELSE a

Clamp(i, n) == IF i < 0 THEN 0 ELSE IF i > n THEN n ELSE i

\* the characters of s from the smaller to the larger of two positions
Between(s, a, b) == IF a < b THEN SubSeq(s, a + 1, b) ELSE SubSeq(s, b + 1, a)

\* s.substring(a, b): both ends clamped to [0, length], swapped if a > b.
Substring(s, a, b) == Between(s, Clamp(a, Len(s)), Clamp(b, Len(s)))

\* s.substring(a)
SubstringFrom(s, a) == SubSeq(s, Clamp(a, Len(s)) + 1, Len(s))

\* s.charAt(i): the one character string at i, "" (here << >>) out of range.
CharAt(s, i) == IF i >= 0 /\ i < Len(s) THEN <<s[i + 1]>> ELSE << >>

\* the least and the greatest element of a non-empty set of integers
SetMin(S) == CHOOSE x \in S : \A y \in S : x <= y

SetMax(S) == CHOOSE x \in S : \A y \in S : x >= y

\* the least element of a set of integers, -1 if it has none
FirstOf(S) == IF S = {} THEN -1 ELSE SetMin(S)

\* the greatest element of a set of integers, -1 if it has none
LastOf(S) == IF S = {} THEN -1 ELSE SetMax(S)

\* s.indexOf(p, from): smallest i >= from with s[i .. i+|p|) = p, or -1.
IndexOfFrom(s, p, from) ==
  FirstOf({i \in 0..(Len(s) - Len(p)) :
             i >= Clamp(from, Len(s)) /\ SubSeq(s, i + 1, i + Len(p)) = p})

IndexOf(s, p) == IndexOfFrom(s, p, 0)

\* s.lastIndexOf(p, from): largest i <= from with s[i .. i+|p|) = p, or -1.
LastIndexOfFrom(s, p, from) ==
  LastOf({i \in 0..(Len(s) - Len(p)) :
            i <= Clamp(from, Len(s)) /\ SubSeq(s, i + 1, i + Len(p)) = p})

LastIndexOf(s, p) == LastIndexOfFrom(s, p, Len(s))

\* the array without the n cells from i on, items in their place
SpliceAt(arr, i, n, items) ==
  SubSeq(arr, 1, i) \o items \o SubSeq(arr, i + n + 1, Len(arr))

\* arr.splice(i, n, ...items) on a 0-based array: the array afterwards.
Splice(arr, i, n, items) ==
  SpliceAt(arr, Clamp(i, Len(arr)),
           Clamp(n, Len(arr) - Clamp(i, Len(arr))), items)

\* arr[i] on a 0-based array
At(arr, i) == arr[i + 1]

\* arr[i] = v on a 0-based array (i within the array)
SetAt(arr, i, v) == [arr EXCEPT ![i + 1] = v]

\* new diff_match_patch.Diff(op, text)
Diff(op, text) == <<op, text>>

Op(d) == d[1]

Text(d) == d[2]

\* diffs[i][0] = op
SetOp(diffs, i, op) == SetAt(diffs, i, Diff(op, Text(At(diffs, i))))

\* diffs[i][1] = text
SetText(diffs, i, text) == SetAt(diffs, i, Diff(Op(At(diffs, i)), text))

\* ------------------------------------------------------------------------
\* Text primitives
\* ------------------------------------------------------------------------
RECURSIVE PrefixSearch(_, _, _, _, _, _)
PrefixSearch(text1, text2, pointermin, pointermax, pointermid, pointerstart) ==
  IF pointermin < pointermid
  THEN IF Substring(text1, pointerstart, pointermid)
            = Substring(text2, pointerstart, pointermid)
       THEN PrefixSearch(text1, text2, pointermid, pointermax,
                         (pointermax - pointermid) \div 2 + pointermid, pointermid)
       ELSE PrefixSearch(text1, text2, pointermin, pointermid,
                         (pointermid - pointermin) \div 2 + pointermin, pointerstart)
  ELSE pointermid

\* diff_commonPrefix without its search: one character at most
diff_commonPrefix_first(text1, text2) ==
  IF text1 = << >> \/ text2 = << >> \/ CharAt(text1, 0) # CharAt(text2, 0)
  THEN 0
  ELSE 1

diff_commonPrefix(text1, text2) ==
  IF text1 = << >> \/ text2 = << >> \/ CharAt(text1, 0) # CharAt(text2, 0)
  THEN 0
  ELSE PrefixSearch(text1, text2, 0, Min(Len(text1), Len(text2)),
                    Min(Len(text1), Len(text2)), 0)

RECURSIVE SuffixSearch(_, _, _, _, _, _)
SuffixSearch(text1, text2, pointermin, pointermax, pointermid, pointerend) ==
  IF pointermin < pointermid
  THEN IF Substring(text1, Len(text1) - pointermid, Len(text1) - pointerend)
            = Substring(text2, Len(text2) - pointermid, Len(text2) - pointerend)
       THEN SuffixSearch(text1, text2, pointermid, pointermax,
                         (pointermax - pointermid) \div 2 + pointermid, pointermid)
       ELSE SuffixSearch(text1, text2, pointermin, pointermid,
                         (pointermid - pointermin) \div 2 + pointermin, pointerend)
  ELSE pointermid

diff_commonSuffix(text1, text2) ==
  IF text1 = << >> \/ text2 = << >>
     \/ CharAt(text1, Len(text1) - 1) # CharAt(text2, Len(text2) - 1)
  THEN 0
  ELSE SuffixSearch(text1, text2, 0, Min(Len(text1), Len(text2)),
                    Min(Len(text1), Len(text2)), 0)

RECURSIVE OverlapSearch(_, _, _, _, _)
OverlapSearch(text1, text2, text_length, best, length) ==
  LET pattern == SubstringFrom(text1, text_length - length)
      found == IndexOf(text2, pattern)
      length2 == length + found
  IN IF found = -1 THEN best
     ELSE IF found = 0
             \/ SubstringFrom(text1, text_length - length2)
                  = Substring(text2, 0, length2)
          THEN OverlapSearch(text1, text2, text_length, length2, length2 + 1)
          ELSE OverlapSearch(text1, text2, text_length, best, length2)

diff_commonOverlap_(text1in, text2in) ==
  LET text1_length == Len(text1in)
      text2_length == Len(text2in)
      text1 == IF text1_length > text2_length
               THEN SubstringFrom(text1in, text1_length - text2_length)
               ELSE text1in
      text2 == IF text1_length < text2_length
               THEN Substring(text2in, 0, text1_length)
               ELSE text2in
      text_length == Min(text1_length, text2_length)
  IN IF text1_length = 0 \/ text2_length = 0 THEN 0
     ELSE IF text1 = text2 THEN text_length
     ELSE OverlapSearch(text1, text2, text_length, 0, 1)

\* ------------------------------------------------------------------------
\* Reading an edit script
\* ------------------------------------------------------------------------
RECURSIVE Join(_)
\* array.join("") of an array of strings
Join(texts) == IF texts = << >> THEN << >> ELSE Head(texts) \o Join(Tail(texts))

\* source text: every edit that is not an insertion
diff_text1(diffs) ==
  Join([x \in 1..Len(diffs) |->
          IF Op(diffs[x]) # DIFF_INSERT THEN Text(diffs[x]) ELSE << >>])

\* destination text: every edit that is not a deletion
diff_text2(diffs) ==
  Join([x \in 1..Len(diffs) |->
          IF Op(diffs[x]) # DIFF_DELETE THEN Text(diffs[x]) ELSE << >>])

\* ------------------------------------------------------------------------
\* diff_cleanupMerge
\* ------------------------------------------------------------------------
\* The local variables of the first loop of diff_cleanupMerge.
MergeStart(diffs0) ==
  [diffs |-> Append(diffs0, Diff(DIFF_EQUAL, << >>)), pointer |-> 0,
   count_delete |-> 0, count_insert |-> 0,
   text_delete |-> << >>, text_insert |-> << >>]

\* lines 2600-2610: factor out a common prefix of commonlength characters
MergePrefix(st, commonlength) ==
  IF commonlength = 0 THEN st
  ELSE IF st.pointer - st.count_delete - st.count_insert > 0
          /\ Op(At(st.diffs, st.pointer - st.count_delete - st.count_insert - 1))
               = DIFF_EQUAL
  THEN [st EXCEPT
         !.diffs = SetText(st.diffs,
                     st.pointer - st.count_delete - st.count_insert - 1,
                     Text(At(st.diffs,
                             st.pointer - st.count_delete - st.count_insert - 1))
                       \o Substring(st.text_insert, 0, commonlength)),
         !.text_insert = SubstringFrom(st.text_insert, commonlength),
         !.text_delete = SubstringFrom(st.text_delete, commonlength)]
  ELSE [st EXCEPT
         !.diffs = Splice(st.diffs, 0, 0,
                     <<Diff(DIFF_EQUAL, Substring(st.text_insert, 0, commonlength))>>),
         !.pointer = st.pointer + 1,
         !.text_insert = SubstringFrom(st.text_insert, commonlength),
         !.text_delete = SubstringFrom(st.text_delete, commonlength)]

\* lines 2611-2616: factor out a common suffix of commonlength characters
MergeSuffix(st, commonlength) ==
  IF commonlength = 0 THEN st
  ELSE [st EXCEPT
         !.diffs = SetText(st.diffs, st.pointer,
                     SubstringFrom(st.text_insert,
                                   Len(st.text_insert) - commonlength)
                       \o Text(At(st.diffs, st.pointer))),
         !.text_insert = Substring(st.text_insert, 0,
                                   Len(st.text_insert) - commonlength),
         !.text_delete = Substring(st.text_delete, 0,
                                   Len(st.text_delete) - commonlength)]

\* lines 2611-2616 with the suffix the texts have in common by then
MergeCommonSuffix(st) ==
  MergeSuffix(st, diff_commonSuffix(st.text_insert, st.text_delete))

\* lines 2599-2617: both kinds of edit precede the equality
MergeFactor(st) ==
  IF st.count_delete # 0 /\ st.count_insert # 0
  THEN MergeCommonSuffix(
         MergePrefix(st, diff_commonPrefix(st.text_insert, st.text_delete)))
  ELSE st

\* Edits making a deletion of every edit
Edits_deleted(op, text) ==
  IF Len(text) # 0 THEN <<Diff(DIFF_DELETE, text)>> ELSE << >>

\* the edit of kind op with this text, if it has any
Edits(op, text) == IF Len(text) # 0 THEN <<Diff(op, text)>> ELSE << >>

\* lines 2618-2628: the run of edits before the equality is replaced by one
\* deletion and one insertion
MergeReplace(st) ==
  [st EXCEPT
    !.diffs = Splice(st.diffs, st.pointer - st.count_delete - st.count_insert,
                     st.count_delete + st.count_insert,
                     Edits(DIFF_DELETE, st.text_delete)
                       \o Edits(DIFF_INSERT, st.text_insert)),
    !.pointer = st.pointer - st.count_delete - st.count_insert
                  + Len(Edits(DIFF_DELETE, st.text_delete))
                  + Len(Edits(DIFF_INSERT, st.text_insert)) + 1,
    !.count_delete = 0, !.count_insert = 0,
    !.text_delete = << >>, !.text_insert = << >>]

\* The DIFF_EQUAL case of the first loop, with count_delete + count_insert > 1.
MergeRun(st) == MergeReplace(MergeFactor(st))

RECURSIVE MergeLoop(_)
\* first loop of diff_cleanupMerge, from the state of its local variables
MergeLoop(st) ==
  IF st.pointer >= Len(st.diffs) THEN st.diffs
  ELSE IF Op(At(st.diffs, st.pointer)) = DIFF_INSERT
  THEN MergeLoop([st EXCEPT
         !.count_insert = st.count_insert + 1,
         !.text_insert = st.text_insert \o Text(At(st.diffs, st.pointer)),
         !.pointer = st.pointer + 1])
  ELSE IF Op(At(st.diffs, st.pointer)) = DIFF_DELETE
  THEN MergeLoop([st EXCEPT
         !.count_delete = st.count_delete + 1,
         !.text_delete = st.text_delete \o Text(At(st.diffs, st.pointer)),
         !.pointer = st.pointer + 1])
  ELSE IF st.count_delete + st.count_insert > 1
  THEN MergeLoop(MergeRun(st))
  ELSE IF st.pointer # 0 /\ Op(At(st.diffs, st.pointer - 1)) = DIFF_EQUAL
  THEN MergeLoop([st EXCEPT
         !.diffs = Splice(SetText(st.diffs, st.pointer - 1,
                                  Text(At(st.diffs, st.pointer - 1))
                                    \o Text(At(st.diffs, st.pointer))),
                          st.pointer, 1, << >>),
         !.count_delete = 0, !.count_insert = 0,
         !.text_delete = << >>, !.text_insert = << >>])
  ELSE MergeLoop([st EXCEPT
         !.pointer = st.pointer + 1,
         !.count_delete = 0, !.count_insert = 0,
         !.text_delete = << >>, !.text_insert = << >>])

\* lines 2642-2644: drop the dummy entry at the end if it is still empty
MergePop(diffs) ==
  IF Text(At(diffs, Len(diffs) - 1)) = << >>
  THEN SubSeq(diffs, 1, Len(diffs) - 1)
  ELSE diffs

\* lines 2648-2660: the edit at pointer, between the equalities prev and
\* next, is shifted left over prev or right over next if it ends or starts
\* with it
ShiftEdit(st, prev, cur, next) ==
  IF SubstringFrom(cur, Len(cur) - Len(prev)) = prev
  THEN [st EXCEPT
         !.diffs = Splice(SetText(SetText(st.diffs, st.pointer,
                                    prev \o Substring(cur, 0, Len(cur) - Len(prev))),
                                  st.pointer + 1, prev \o next),
                          st.pointer - 1, 1, << >>),
         !.pointer = st.pointer + 1,
         !.changes = TRUE]
  ELSE IF Substring(cur, 0, Len(next)) = next
  THEN [st EXCEPT
         !.diffs = Splice(SetText(SetText(st.diffs, st.pointer - 1, prev \o next),
                                  st.pointer,
                                  SubstringFrom(cur, Len(next)) \o next),
                          st.pointer + 1, 1, << >>),
         !.pointer = st.pointer + 1,
         !.changes = TRUE]
  ELSE [st EXCEPT !.pointer = st.pointer + 1]

RECURSIVE ShiftLoop(_)
\* second loop of diff_cleanupMerge: slide single edits over an equality;
\* st = [diffs, pointer, changes]
ShiftLoop(st) ==
  IF st.pointer >= Len(st.diffs) - 1 THEN st
  ELSE IF Op(At(st.diffs, st.pointer - 1)) = DIFF_EQUAL
          /\ Op(At(st.diffs, st.pointer + 1)) = DIFF_EQUAL
  THEN ShiftLoop(ShiftEdit(st, Text(At(st.diffs, st.pointer - 1)),
                           Text(At(st.diffs, st.pointer)),
                           Text(At(st.diffs, st.pointer + 1))))
  ELSE ShiftLoop([st EXCEPT !.pointer = st.pointer + 1])

RECURSIVE diff_cleanupMerge(_)
\* if (changes) this.diff_cleanupMerge(diffs), as every cleanup ends
MergeIfChanged(st) ==
  IF st.changes THEN diff_cleanupMerge(st.diffs) ELSE st.diffs

\* diff_cleanupMerge left out: the script stays as it was put together
diff_cleanupMerge_skipped(diffs0) == diffs0

diff_cleanupMerge(diffs0) ==
  MergeIfChanged(ShiftLoop([diffs |-> MergePop(MergeLoop(MergeStart(diffs0))),
                        pointer |-> 1, changes |-> FALSE]))

\* ------------------------------------------------------------------------
\* diff_cleanupSemanticLossless
\* ------------------------------------------------------------------------
AlphaNumeric == (48..57) \cup (65..90) \cup (97..122)

\* the characters of /\s/ below U+0080
Whitespace == {9, 10, 11, 12, 13, 32}

Linebreak == {10, 13}

\* /\n\r?\n$/
BlanklineEnd(one) ==
  LET n == Len(one)
  IN \/ n >= 2 /\ one[n] = 10 /\ one[n - 1] = 10
     \/ n >= 3 /\ one[n] = 10 /\ one[n - 1] = 13 /\ one[n - 2] = 10

\* /^\r?\n\r?\n/
BlanklineStart(two) ==
  LET a == IF Len(two) >= 1 /\ two[1] = 13 THEN 2 ELSE 1
      b == IF Len(two) >= a + 1 /\ two[a + 1] = 13 THEN a + 2 ELSE a + 1
  IN Len(two) >= b /\ two[a] = 10 /\ two[b] = 10

diff_cleanupSemanticScore_(one, two) ==
  IF one = << >> \/ two = << >> THEN 6
  ELSE
    LET char1 == one[Len(one)]
        char2 == two[1]
        nonAlphaNumeric1 == char1 \notin AlphaNumeric
        nonAlphaNumeric2 == char2 \notin AlphaNumeric
        whitespace1 == nonAlphaNumeric1 /\ char1 \in Whitespace
        whitespace2 == nonAlphaNumeric2 /\ char2 \in Whitespace
        lineBreak1 == whitespace1 /\ char1 \in Linebreak
        lineBreak2 == whitespace2 /\ char2 \in Linebreak
        blankLine1 == lineBreak1 /\ BlanklineEnd(one)
        blankLine2 == lineBreak2 /\ BlanklineStart(two)
    IN IF blankLine1 \/ blankLine2 THEN 5
       ELSE IF lineBreak1 \/ lineBreak2 THEN 4
       ELSE IF nonAlphaNumeric1 /\ ~whitespace1 /\ whitespace2 THEN 3
       ELSE IF whitespace1 \/ whitespace2 THEN 2
       ELSE IF nonAlphaNumeric1 \/ nonAlphaNumeric2 THEN 1
       ELSE 0

\* lines 2477-2486: the three texts around pointer, the common suffix of the
\* first two (commonOffset characters) moved to the front of the last two
LosslessStart(equality1, edit, equality2, commonOffset) ==
  IF commonOffset # 0
  THEN [equality1 |-> Substring(equality1, 0, Len(equality1) - commonOffset),
        edit |-> SubstringFrom(edit, Len(edit) - commonOffset)
                   \o Substring(edit, 0, Len(edit) - commonOffset),
        equality2 |-> SubstringFrom(edit, Len(edit) - commonOffset) \o equality2]
  ELSE [equality1 |-> equality1, edit |-> edit, equality2 |-> equality2]

\* the score of the split w
LosslessScore(w) ==
  diff_cleanupSemanticScore_(w.equality1, w.edit)
    + diff_cleanupSemanticScore_(w.edit, w.equality2)

\* lines 2487-2490 and 2496-2501: the split w is the best one if it scores
\* at least bestScore
LosslessBest(w, best, score) ==
  IF score >= best.bestScore
  THEN [bestEquality1 |-> w.equality1, bestEdit |-> w.edit,
        bestEquality2 |-> w.equality2, bestScore |-> score]
  ELSE best

\* lines 2492-2494: one character to the right
LosslessStep(w) ==
  [equality1 |-> w.equality1 \o CharAt(w.edit, 0),
   edit |-> SubstringFrom(w.edit, 1) \o CharAt(w.equality2, 0),
   equality2 |-> SubstringFrom(w.equality2, 1)]

RECURSIVE LosslessSlide(_, _)
\* the inner while of diff_cleanupSemanticLossless: step character by
\* character to the right, keeping the best scoring split in best
LosslessSlide(w, best) ==
  IF CharAt(w.edit, 0) = CharAt(w.equality2, 0)
  THEN LosslessSlide(LosslessStep(w),
                     LosslessBest(LosslessStep(w), best,
                                  LosslessScore(LosslessStep(w))))
  ELSE best

\* the best split found from the split w on
LosslessSearch(w) ==
  LosslessSlide(w, [bestEquality1 |-> w.equality1, bestEdit |-> w.edit,
                    bestEquality2 |-> w.equality2,
                    bestScore |-> LosslessScore(w)])

\* lines 2504-2509; st = [diffs, pointer]
LosslessFirst(st, best) ==
  IF best.bestEquality1 # << >>
  THEN [st EXCEPT !.diffs = SetText(st.diffs, st.pointer - 1, best.bestEquality1)]
  ELSE [diffs |-> Splice(st.diffs, st.pointer - 1, 1, << >>),
        pointer |-> st.pointer - 1]

\* line 2510
LosslessEdit(st, best) ==
  [st EXCEPT !.diffs = SetText(st.diffs, st.pointer, best.bestEdit)]

\* lines 2511-2516
LosslessLast(st, best) ==
  IF best.bestEquality2 # << >>
  THEN [st EXCEPT !.diffs = SetText(st.diffs, st.pointer + 1, best.bestEquality2)]
  ELSE [diffs |-> Splice(st.diffs, st.pointer + 1, 1, << >>),
        pointer |-> st.pointer - 1]

\* lines 2503-2517: the best split replaces the three edits around pointer
LosslessWrite(st, best) ==
  IF Text(At(st.diffs, st.pointer - 1)) # best.bestEquality1
  THEN LosslessLast(LosslessEdit(LosslessFirst(st, best), best), best)
  ELSE st

\* line 2519
PointerNext(st) == [st EXCEPT !.pointer = st.pointer + 1]

RECURSIVE LosslessLoop(_)
LosslessLoop(st) ==
  IF st.pointer >= Len(st.diffs) - 1 THEN st.diffs
  ELSE IF Op(At(st.diffs, st.pointer - 1)) = DIFF_EQUAL
          /\ Op(At(st.diffs, st.pointer + 1)) = DIFF_EQUAL
  THEN LosslessLoop(PointerNext(LosslessWrite(st,
         LosslessSearch(
           LosslessStart(Text(At(st.diffs, st.pointer - 1)),
                         Text(At(st.diffs, st.pointer)),
                         Text(At(st.diffs, st.pointer + 1)),
                         diff_commonSuffix(Text(At(st.diffs, st.pointer - 1)),
                                           Text(At(st.diffs, st.pointer))))))))
  ELSE LosslessLoop(PointerNext(st))

diff_cleanupSemanticLossless(diffs0) ==
  LosslessLoop([diffs |-> diffs0, pointer |-> 1])

\* ------------------------------------------------------------------------
\* diff_cleanupSemantic
\* ------------------------------------------------------------------------
\* a[i] = v on a JavaScript array used as a map (any integer key)
Put(a, i, v) == [j \in DOMAIN a \cup {i} |-> IF j = i THEN v ELSE a[j]]

\* The local variables of the first loop of diff_cleanupSemantic.  A null
\* lastEquality and an empty one behave alike (both are falsy): << >>.
SemanticStart(diffs0) ==
  [diffs |-> diffs0, changes |-> FALSE, equalities |-> << >>,
   equalitiesLength |-> 0, lastEquality |-> << >>, pointer |-> 0,
   length_insertions1 |-> 0, length_deletions1 |-> 0,
   length_insertions2 |-> 0, length_deletions2 |-> 0]

RECURSIVE SemanticLoop(_)
SemanticLoop(st) ==
  IF st.pointer >= Len(st.diffs) THEN st
  ELSE
    LET cur == At(st.diffs, st.pointer) IN
    IF Op(cur) = DIFF_EQUAL
    THEN SemanticLoop([st EXCEPT
           !.equalities = Put(st.equalities, st.equalitiesLength, st.pointer),
           !.equalitiesLength = st.equalitiesLength + 1,
           !.length_insertions1 = st.length_insertions2,
           !.length_deletions1 = st.length_deletions2,
           !.length_insertions2 = 0,
           !.length_deletions2 = 0,
           !.lastEquality = Text(cur),
           !.pointer = st.pointer + 1])
    ELSE
      LET li2 == IF Op(cur) = DIFF_INSERT
                 THEN st.length_insertions2 + Len(Text(cur))
                 ELSE st.length_insertions2
          ld2 == IF Op(cur) = DIFF_INSERT
                 THEN st.length_deletions2
                 ELSE st.length_deletions2 + Len(Text(cur))
          le == st.lastEquality
      IN IF le # << >>
            /\ Len(le) <= Max(st.length_insertions1, st.length_deletions1)
            /\ Len(le) <= Max(li2, ld2)
         THEN LET idx == st.equalities[st.equalitiesLength - 1]
                  d1 == Splice(st.diffs, idx, 0, <<Diff(DIFF_DELETE, le)>>)
                  d2 == SetOp(d1, idx + 1, DIFF_INSERT)
                  el == st.equalitiesLength - 2
              IN SemanticLoop([st EXCEPT
                   !.diffs = d2,
                   !.equalitiesLength = el,
                   !.pointer = (IF el > 0 THEN st.equalities[el - 1] ELSE -1) + 1,
                   !.length_insertions1 = 0, !.length_deletions1 = 0,
                   !.length_insertions2 = 0, !.length_deletions2 = 0,
                   !.lastEquality = << >>,
                   !.changes = TRUE])
         ELSE SemanticLoop([st EXCEPT
                !.length_insertions2 = li2, !.length_deletions2 = ld2,
                !.pointer = st.pointer + 1])

\* lines 2424-2440: the deletion and the insertion at pointer - 1 and
\* pointer overlap by overlap_length1 characters one way and by
\* overlap_length2 the other way; st = [diffs, pointer]
OverlapSplit(st, deletion, insertion, overlap_length1, overlap_length2) ==
  IF overlap_length1 >= overlap_length2
  THEN IF 2 * overlap_length1 >= Len(deletion)
          \/ 2 * overlap_length1 >= Len(insertion)
       THEN [diffs |->
               SetText(
                 SetText(
                   Splice(st.diffs, st.pointer, 0,
                          <<Diff(DIFF_EQUAL,
                                 Substring(insertion, 0, overlap_length1))>>),
                   st.pointer - 1,
                   Substring(deletion, 0, Len(deletion) - overlap_length1)),
                 st.pointer + 1, SubstringFrom(insertion, overlap_length1)),
             pointer |-> st.pointer + 3]
       ELSE [st EXCEPT !.pointer = st.pointer + 2]
  ELSE IF 2 * overlap_length2 >= Len(deletion)
          \/ 2 * overlap_length2 >= Len(insertion)
       THEN [diffs |->
               SetAt(
                 SetAt(
                   Splice(st.diffs, st.pointer, 0,
                          <<Diff(DIFF_EQUAL,
                                 Substring(deletion, 0, overlap_length2))>>),
                   st.pointer - 1,
                   Diff(DIFF_INSERT,
                        Substring(insertion, 0, Len(insertion) - overlap_length2))),
                 st.pointer + 1,
                 Diff(DIFF_DELETE, SubstringFrom(deletion, overlap_length2))),
             pointer |-> st.pointer + 3]
       ELSE [st EXCEPT !.pointer = st.pointer + 2]

RECURSIVE OverlapLoop(_)
\* last loop of diff_cleanupSemantic: find overlaps between a deletion and
\* the insertion that follows it
OverlapLoop(st) ==
  IF st.pointer >= Len(st.diffs) THEN st.diffs
  ELSE IF Op(At(st.diffs, st.pointer - 1)) = DIFF_DELETE
          /\ Op(At(st.diffs, st.pointer)) = DIFF_INSERT
  THEN OverlapLoop(
         OverlapSplit(st, Text(At(st.diffs, st.pointer - 1)),
                      Text(At(st.diffs, st.pointer)),
                      diff_commonOverlap_(Text(At(st.diffs, st.pointer - 1)),
                                          Text(At(st.diffs, st.pointer))),
                      diff_commonOverlap_(Text(At(st.diffs, st.pointer)),
                                          Text(At(st.diffs, st.pointer - 1)))))
  ELSE OverlapLoop(PointerNext(st))

diff_cleanupSemantic(diffs0) ==
  OverlapLoop([diffs |-> diff_cleanupSemanticLossless(
                           MergeIfChanged(SemanticLoop(SemanticStart(diffs0)))),
               pointer |-> 1])

\* ------------------------------------------------------------------------
\* diff_cleanupEfficiency
\* ------------------------------------------------------------------------
EfficiencyStart(diffs0) ==
  [diffs |-> diffs0, changes |-> FALSE, equalities |-> << >>,
   equalitiesLength |-> 0, lastEquality |-> << >>, pointer |-> 0,
   pre_ins |-> FALSE, pre_del |-> FALSE, post_ins |-> FALSE, post_del |-> FALSE]

\* a boolean used as a number
Num(b) == IF b THEN 1 ELSE 0

RECURSIVE EfficiencyLoop(_)
EfficiencyLoop(st) ==
  IF st.pointer >= Len(st.diffs) THEN st
  ELSE
    LET cur == At(st.diffs, st.pointer) IN
    IF Op(cur) = DIFF_EQUAL
    THEN IF Len(Text(cur)) < Diff_EditCost /\ (st.post_ins \/ st.post_del)
         THEN EfficiencyLoop([st EXCEPT
                !.equalities = Put(st.equalities, st.equalitiesLength, st.pointer),
                !.equalitiesLength = st.equalitiesLength + 1,
                !.pre_ins = st.post_ins, !.pre_del = st.post_del,
                !.lastEquality = Text(cur),
                !.post_ins = FALSE, !.post_del = FALSE,
                !.pointer = st.pointer + 1])
         ELSE EfficiencyLoop([st EXCEPT
                !.equalitiesLength = 0, !.lastEquality = << >>,
                !.post_ins = FALSE, !.post_del = FALSE,
                !.pointer = st.pointer + 1])
    ELSE
      LET post_del == st.post_del \/ Op(cur) = DIFF_DELETE
          post_ins == st.post_ins \/ Op(cur) # DIFF_DELETE
          le == st.lastEquality
      IN IF le # << >>
            /\ \/ st.pre_ins /\ st.pre_del /\ post_ins /\ post_del
               \/ /\ 2 * Len(le) < Diff_EditCost
                  /\ Num(st.pre_ins) + Num(st.pre_del)
                       + Num(post_ins) + Num(post_del) = 3
         THEN LET idx == st.equalities[st.equalitiesLength - 1]
                  d1 == Splice(st.diffs, idx, 0, <<Diff(DIFF_DELETE, le)>>)
                  d2 == SetOp(d1, idx + 1, DIFF_INSERT)
                  el == st.equalitiesLength - 1
              IN IF st.pre_ins /\ st.pre_del
                 THEN EfficiencyLoop([st EXCEPT
                        !.diffs = d2, !.lastEquality = << >>,
                        !.post_ins = TRUE, !.post_del = TRUE,
                        !.equalitiesLength = 0,
                        !.changes = TRUE,
                        !.pointer = st.pointer + 1])
                 ELSE EfficiencyLoop([st EXCEPT
                        !.diffs = d2, !.lastEquality = << >>,
                        !.equalitiesLength = el - 1,
                        !.pointer = (IF el - 1 > 0
                                     THEN st.equalities[el - 2] ELSE -1) + 1,
                        !.post_ins = FALSE, !.post_del = FALSE,
                        !.changes = TRUE])
         ELSE EfficiencyLoop([st EXCEPT
                !.post_ins = post_ins, !.post_del = post_del,
                !.pointer = st.pointer + 1])

diff_cleanupEfficiency(diffs0) ==
  MergeIfChanged(EfficiencyLoop(EfficiencyStart(diffs0)))

\* ------------------------------------------------------------------------
\* Line mode helpers
\* ------------------------------------------------------------------------
RECURSIVE HashLookup(_, _, _)
\* lineHash[line]: the index at which line was stored in lineArray, -1 if
\* lineHash has no such key (lineArray[0], the empty line, is never hashed)
HashLookup(lineArray, line, i) ==
  IF i >= Len(lineArray) THEN -1
  ELSE IF At(lineArray, i) = line THEN i
  ELSE HashLookup(lineArray, line, i + 1)

RECURSIVE diff_linesToCharsMunge_(_, _, _, _, _, _)
\* returns [chars, lineArray]; a character of chars is an index of lineArray
diff_linesToCharsMunge_(text, maxLines, lineArray, chars, lineStart, lineEnd) ==
  LET Hashed(lineEnd1, line, known) ==
        IF known # -1
        THEN diff_linesToCharsMunge_(text, maxLines, lineArray,
                                     Append(chars, known), lineEnd1 + 1, lineEnd1)
        ELSE IF Len(lineArray) = maxLines
        THEN diff_linesToCharsMunge_(text, maxLines,
                                     Append(lineArray, SubstringFrom(text, lineStart)),
                                     Append(chars, Len(lineArray)),
                                     Len(text) + 1, Len(text))
        ELSE diff_linesToCharsMunge_(text, maxLines, Append(lineArray, line),
                                     Append(chars, Len(lineArray)),
                                     lineEnd1 + 1, lineEnd1)
      Line(lineEnd1, line) == Hashed(lineEnd1, line, HashLookup(lineArray, line, 1))
      LineEnd(lineEnd1) == Line(lineEnd1, Substring(text, lineStart, lineEnd1 + 1))
      Found(nl) == LineEnd(IF nl = -1 THEN Len(text) - 1 ELSE nl)
  IN IF lineEnd >= Len(text) - 1 THEN [chars |-> chars, lineArray |-> lineArray]
     ELSE Found(IndexOfFrom(text, <<10>>, lineStart))

MaxLines1 == 40000

MaxLines2 == 65535

diff_linesToChars_(text1, text2) ==
  LET Both(chars1, m2) ==
        [chars1 |-> chars1, chars2 |-> m2.chars, lineArray |-> m2.lineArray]
      Second(m1) ==
        Both(m1.chars,
             diff_linesToCharsMunge_(text2, MaxLines2, m1.lineArray, << >>, 0, -1))
  IN Second(diff_linesToCharsMunge_(text1, MaxLines1, << << >> >>, << >>, 0, -1))

diff_charsToLines_(diffs0, lineArray) ==
  [i \in 1..Len(diffs0) |->
     Diff(Op(diffs0[i]),
          Join([j \in 1..Len(Text(diffs0[i])) |->
                  At(lineArray, Text(diffs0[i])[j])]))]

\* ------------------------------------------------------------------------
\* diff_halfMatch_
\* ------------------------------------------------------------------------
\* null
Null == << >>

RECURSIVE HalfMatchScan(_, _, _, _, _, _)
\* the while loop of diff_halfMatchI_; best is
\* <<best_longtext_a, best_longtext_b, best_shorttext_a, best_shorttext_b, best_common>>
HalfMatchScan(longtext, shorttext, i, seed, jprev, best) ==
  LET Better(j, prefixLength, suffixLength) ==
        IF Len(best[5]) < suffixLength + prefixLength
        THEN << Substring(longtext, 0, i - suffixLength),
                SubstringFrom(longtext, i + prefixLength),
                Substring(shorttext, 0, j - suffixLength),
                SubstringFrom(shorttext, j + prefixLength),
                Substring(shorttext, j - suffixLength, j)
                  \o Substring(shorttext, j, j + prefixLength) >>
        ELSE best
      Seed(j) ==
        IF j = -1 THEN best
        ELSE HalfMatchScan(longtext, shorttext, i, seed, j,
               Better(j,
                      diff_commonPrefix(SubstringFrom(longtext, i),
                                        SubstringFrom(shorttext, j)),
                      diff_commonSuffix(Substring(longtext, 0, i),
                                        Substring(shorttext, 0, j))))
  IN Seed(IndexOfFrom(shorttext, seed, jprev + 1))

\* diff_halfMatchI_ without the test of line 2340: any common text will do
diff_halfMatchI_any(longtext, shorttext, i) ==
  LET Accept(best) == IF Len(best[5]) > 0 THEN best ELSE Null
  IN Accept(HalfMatchScan(longtext, shorttext, i,
                          Substring(longtext, i, i + Len(longtext) \div 4), -1,
                          << << >>, << >>, << >>, << >>, << >> >>))

diff_halfMatchI_(longtext, shorttext, i) ==
  LET Accept(best) ==
        IF Len(best[5]) * 2 >= Len(longtext) THEN best ELSE Null
  IN Accept(HalfMatchScan(longtext, shorttext, i,
                          Substring(longtext, i, i + Len(longtext) \div 4), -1,
                          << << >>, << >>, << >>, << >>, << >> >>))

\* Math.ceil(n / 4) and Math.ceil(n / 2)
CeilDiv(n, k) == (n + k - 1) \div k

\* diff_halfMatch_ without the test of Diff_Timeout (lines 2315-2317)
diff_halfMatch_always(text1, text2) ==
  LET Ordered(hm) ==
        IF hm = Null THEN Null
        ELSE IF Len(text1) > Len(text2)
        THEN <<hm[1], hm[2], hm[3], hm[4], hm[5]>>
        ELSE <<hm[3], hm[4], hm[1], hm[2], hm[5]>>
      Longer(hm1, hm2) ==
        Ordered(IF hm1 = Null /\ hm2 = Null THEN Null
                ELSE IF hm2 = Null THEN hm1
                ELSE IF hm1 = Null THEN hm2
                ELSE IF Len(hm1[5]) > Len(hm2[5]) THEN hm1 ELSE hm2)
      Halves(longtext, shorttext) ==
        IF Len(longtext) < 4 \/ Len(shorttext) * 2 < Len(longtext) THEN Null
        ELSE Longer(diff_halfMatchI_(longtext, shorttext, CeilDiv(Len(longtext), 4)),
                    diff_halfMatchI_(longtext, shorttext, CeilDiv(Len(longtext), 2)))
  IN Halves(IF Len(text1) > Len(text2) THEN text1 ELSE text2,
            IF Len(text1) > Len(text2) THEN text2 ELSE text1)

diff_halfMatch_(text1, text2) ==
  LET Ordered(hm) ==
        IF hm = Null THEN Null
        ELSE IF Len(text1) > Len(text2)
        THEN <<hm[1], hm[2], hm[3], hm[4], hm[5]>>
        ELSE <<hm[3], hm[4], hm[1], hm[2], hm[5]>>
      Longer(hm1, hm2) ==
        Ordered(IF hm1 = Null /\ hm2 = Null THEN Null
                ELSE IF hm2 = Null THEN hm1
                ELSE IF hm1 = Null THEN hm2
                ELSE IF Len(hm1[5]) > Len(hm2[5]) THEN hm1 ELSE hm2)
      Halves(longtext, shorttext) ==
        IF Len(longtext) < 4 \/ Len(shorttext) * 2 < Len(longtext) THEN Null
        ELSE Longer(diff_halfMatchI_(longtext, shorttext, CeilDiv(Len(longtext), 4)),
                    diff_halfMatchI_(longtext, shorttext, CeilDiv(Len(longtext), 2)))
  IN IF Diff_Timeout <= 0 THEN Null
     ELSE Halves(IF Len(text1) > Len(text2) THEN text1 ELSE text2,
                 IF Len(text1) > Len(text2) THEN text2 ELSE text1)

\* ------------------------------------------------------------------------
\* Diff engine.  Every function of this group takes the deadline (the clock
\* reads that still precede it) and returns [diffs, deadline]: the script
\* and the clock reads left for the caller's next call.
\* ------------------------------------------------------------------------
\* (new Date()).getTime() > deadline
Expired(deadline) == deadline <= 0

\* the deadline as seen after one clock read
Tick(deadline) == IF deadline <= 0 THEN 0 ELSE deadline - 1

\* follow the diagonal from (x1, y1) while the texts agree: the x1 at which
\* the while loop of lines 2135-2138 stops
Snake1(text1, text2, x1, y1) ==
  x1 + SetMin({i \in 0..Max(0, Len(text1) - x1) :
                 ~(/\ x1 + i < Len(text1)
                   /\ y1 + i < Len(text2)
                   /\ CharAt(text1, x1 + i) = CharAt(text2, y1 + i))})

\* the same from the ends of the texts (lines 2163-2166)
Snake2(text1, text2, x2, y2) ==
  x2 + SetMin({i \in 0..Max(0, Len(text1) - x2) :
                 ~(/\ x2 + i < Len(text1)
                   /\ y2 + i < Len(text2)
                   /\ CharAt(text1, Len(text1) - (x2 + i) - 1)
                        = CharAt(text2, Len(text2) - (y2 + i) - 1))})

\* the local variables of diff_bisect_ before its first iteration.  The
\* arrays have v_length cells; cell v_length exists as well because lines
\* 2114-2115 write cell v_offset + 1, which is cell v_length when max_d = 1
\* (no other run reads or writes it).  d, k and deadline are the loop
\* variables and the clock; over tells that the loop over d has ended, kover
\* that the running loop over k has ended, found that the paths overlap at
\* (x, y).
BisectStart(text1, text2, deadline) ==
  LET max_d == CeilDiv(Len(text1) + Len(text2), 2)
      v_length == 2 * max_d
      blank == [x \in 0..v_length |-> -1]
  IN [v1 |-> [blank EXCEPT ![max_d + 1] = 0], v2 |-> [blank EXCEPT ![max_d + 1] = 0],
      k1start |-> 0, k1end |-> 0, k2start |-> 0, k2end |-> 0,
      found |-> FALSE, x |-> 0, y |-> 0,
      d |-> 0, k |-> 0, deadline |-> deadline, over |-> FALSE, kover |-> FALSE]

\* one turn of the forward loop over k1 of iteration d; found, x, y report
\* the overlap at which the source returns diff_bisectSplit_(text1, text2, x, y)
BisectForward(text1, text2, st) ==
  LET max_d == CeilDiv(Len(text1) + Len(text2), 2)
      delta == Len(text1) - Len(text2)
      Reached(v1, x1, y1, k2_offset) ==
        IF x1 > Len(text1)
        THEN [st EXCEPT !.v1 = v1, !.k1end = st.k1end + 2, !.k = st.k + 2]
        ELSE IF y1 > Len(text2)
        THEN [st EXCEPT !.v1 = v1, !.k1start = st.k1start + 2, !.k = st.k + 2]
        ELSE IF delta % 2 # 0 /\ k2_offset >= 0 /\ k2_offset < 2 * max_d
                /\ st.v2[k2_offset] # -1
                /\ x1 >= Len(text1) - st.v2[k2_offset]
        THEN [st EXCEPT !.v1 = v1, !.found = TRUE, !.x = x1, !.y = y1,
                        !.kover = TRUE]
        ELSE [st EXCEPT !.v1 = v1, !.k = st.k + 2]
      Followed(x1) ==
        Reached([st.v1 EXCEPT ![max_d + st.k] = x1], x1, x1 - st.k,
                max_d + delta - st.k)
      Follow(x1) == Followed(Snake1(text1, text2, x1, x1 - st.k))
      Path(k1, k1_offset) ==
        Follow(IF k1 = -st.d
                  \/ (k1 # st.d /\ st.v1[k1_offset - 1] < st.v1[k1_offset + 1])
               THEN st.v1[k1_offset + 1]
               ELSE st.v1[k1_offset - 1] + 1)
  IN IF st.kover \/ st.k > st.d - st.k1end THEN [st EXCEPT !.kover = TRUE]
     ELSE Path(st.k, max_d + st.k)

\* one turn of the reverse loop over k2 of iteration d
BisectReverse(text1, text2, st) ==
  LET max_d == CeilDiv(Len(text1) + Len(text2), 2)
      delta == Len(text1) - Len(text2)
      Reached(v2, x2, y2, k1_offset) ==
        IF x2 > Len(text1)
        THEN [st EXCEPT !.v2 = v2, !.k2end = st.k2end + 2, !.k = st.k + 2]
        ELSE IF y2 > Len(text2)
        THEN [st EXCEPT !.v2 = v2, !.k2start = st.k2start + 2, !.k = st.k + 2]
        ELSE IF delta % 2 = 0 /\ k1_offset >= 0 /\ k1_offset < 2 * max_d
                /\ st.v1[k1_offset] # -1
                /\ st.v1[k1_offset] >= Len(text1) - x2
        THEN [st EXCEPT !.v2 = v2, !.found = TRUE,
                        !.x = st.v1[k1_offset],
                        !.y = max_d + st.v1[k1_offset] - k1_offset,
                        !.kover = TRUE]
        ELSE [st EXCEPT !.v2 = v2, !.k = st.k + 2]
      Followed(x2) ==
        Reached([st.v2 EXCEPT ![max_d + st.k] = x2], x2, x2 - st.k,
                max_d + delta - st.k)
      Follow(x2) == Followed(Snake2(text1, text2, x2, x2 - st.k))
      Path(k2, k2_offset) ==
        Follow(IF k2 = -st.d
                  \/ (k2 # st.d /\ st.v2[k2_offset - 1] < st.v2[k2_offset + 1])
               THEN st.v2[k2_offset + 1]
               ELSE st.v2[k2_offset - 1] + 1)
  IN IF st.kover \/ st.k > st.d - st.k2end THEN [st EXCEPT !.kover = TRUE]
     ELSE Path(st.k, max_d + st.k)

RECURSIVE BisectForwardLoop(_, _, _, _)
\* the loop over k1 of lines 2126-2153, at most n turns from st on
BisectForwardLoop(text1, text2, st, n) ==
  LET Rest(half) ==
        IF DOMAIN half = DOMAIN half
        THEN BisectForwardLoop(text1, text2, half, n - n \div 2)
        ELSE half
  IN IF n <= 0 \/ st.kover THEN st
     ELSE IF n = 1 THEN BisectForward(text1, text2, st)
     ELSE Rest(BisectForwardLoop(text1, text2, st, n \div 2))

RECURSIVE BisectReverseLoop(_, _, _, _)
\* the loop over k2 of lines 2154-2183, at most n turns from st on
BisectReverseLoop(text1, text2, st, n) ==
  LET Rest(half) ==
        IF DOMAIN half = DOMAIN half
        THEN BisectReverseLoop(text1, text2, half, n - n \div 2)
        ELSE half
  IN IF n <= 0 \/ st.kover THEN st
     ELSE IF n = 1 THEN BisectReverse(text1, text2, st)
     ELSE Rest(BisectReverseLoop(text1, text2, st, n \div 2))

\* one turn of the loop over d of diff_bisect_: the clock is read, then the
\* forward loop runs, then the reverse loop
BisectStep(text1, text2, st) ==
  LET Reversed(rev) ==
        IF rev.found THEN [rev EXCEPT !.over = TRUE]
        ELSE [rev EXCEPT !.d = rev.d + 1]
      Forwarded(fwd) ==
        IF fwd.found THEN [fwd EXCEPT !.over = TRUE]
        ELSE Reversed(BisectReverseLoop(text1, text2,
                        [fwd EXCEPT !.k = fwd.k2start - fwd.d, !.kover = FALSE],
                        fwd.d + 1))
  IN IF st.over THEN st
     ELSE IF st.d >= CeilDiv(Len(text1) + Len(text2), 2)
     THEN [st EXCEPT !.over = TRUE]
     ELSE IF Expired(st.deadline)
     THEN [st EXCEPT !.over = TRUE, !.deadline = Tick(st.deadline)]
     ELSE Forwarded(BisectForwardLoop(text1, text2,
                      [st EXCEPT !.k = st.k1start - st.d, !.kover = FALSE,
                                 !.deadline = Tick(st.deadline)],
                      st.d + 1))

RECURSIVE BisectLoop(_, _, _, _)
\* the loop over d of lines 2122-2184, at most n turns from st on
BisectLoop(text1, text2, st, n) ==
  LET Rest(half) ==
        IF DOMAIN half = DOMAIN half
        THEN BisectLoop(text1, text2, half, n - n \div 2)
        ELSE half
  IN IF n <= 0 \/ st.over THEN st
     ELSE IF n = 1 THEN BisectStep(text1, text2, st)
     ELSE Rest(BisectLoop(text1, text2, st, n \div 2))

RECURSIVE diff_main(_, _, _, _)
RECURSIVE diff_compute_(_, _, _, _)
RECURSIVE diff_lineMode_(_, _, _)
RECURSIVE LineModeLoop(_, _, _, _, _, _, _)
RECURSIVE diff_bisect_(_, _, _)
RECURSIVE diff_bisectSplit_(_, _, _, _, _)

\* the script diffs followed by the script of the result r of a later call
Concat(diffs0, r) == [diffs |-> diffs0 \o r.diffs, deadline |-> r.deadline]

\* diff_bisectSplit_ cutting text2 at x where it should cut it at y
diff_bisectSplit_swapped(text1, text2, x, y, deadline) ==
  LET Second(a) ==
        Concat(a.diffs,
               diff_main(SubstringFrom(text1, x), SubstringFrom(text2, x),
                         FALSE, a.deadline))
  IN Second(diff_main(Substring(text1, 0, x), Substring(text2, 0, y),
                      FALSE, deadline))

diff_bisectSplit_(text1, text2, x, y, deadline) ==
  LET Second(a) ==
        Concat(a.diffs,
               diff_main(SubstringFrom(text1, x), SubstringFrom(text2, y),
                         FALSE, a.deadline))
  IN Second(diff_main(Substring(text1, 0, x), Substring(text2, 0, y),
                      FALSE, deadline))

\* diff_bisect_ that reports the overlap of the paths at the end of both
\* texts as long as the deadline has not passed
BisectOverlap_whole(text1, text2, deadline) ==
  IF Expired(deadline)
  THEN [BisectStart(text1, text2, deadline) EXCEPT !.over = TRUE]
  ELSE [BisectStart(text1, text2, deadline) EXCEPT
          !.over = TRUE, !.found = TRUE, !.x = Len(text1), !.y = Len(text2),
          !.deadline = Tick(deadline)]

\* the locals of diff_bisect_ when its loop over d ends: found tells that
\* the paths overlap, at (x, y)
BisectOverlap(text1, text2, deadline) ==
  BisectLoop(text1, text2, BisectStart(text1, text2, deadline),
             CeilDiv(Len(text1) + Len(text2), 2) + 1)

\* diff_bisect_ that returns the insertion alone when it gives up
diff_bisect_dropped(text1, text2, deadline) ==
  LET Ended(st) ==
        IF st.found
        THEN diff_bisectSplit_(text1, text2, st.x, st.y, st.deadline)
        ELSE [diffs |-> <<Diff(DIFF_INSERT, text2)>>, deadline |-> st.deadline]
  IN Ended(BisectLoop(text1, text2, BisectStart(text1, text2, deadline),
                      CeilDiv(Len(text1) + Len(text2), 2) + 1))

\* diff_bisect_ that gives up at once, as when the deadline has passed
diff_bisect_expired(text1, text2, deadline) ==
  [diffs |-> <<Diff(DIFF_DELETE, text1), Diff(DIFF_INSERT, text2)>>,
   deadline |-> deadline]

\* the paths overlap: split and recurse; max_d passes or the deadline
\* passed without overlap: the whole texts are deleted and inserted
diff_bisect_(text1, text2, deadline) ==
  LET Ended(st) ==
        IF st.found
        THEN diff_bisectSplit_(text1, text2, st.x, st.y, st.deadline)
        ELSE [diffs |-> <<Diff(DIFF_DELETE, text1), Diff(DIFF_INSERT, text2)>>,
              deadline |-> st.deadline]
  IN Ended(BisectOverlap(text1, text2, deadline))

\* the while loop of diff_lineMode_: rediff every replacement block
\* character by character
LineModeLoop(diffs0, pointer, count_delete, count_insert, text_delete, text_insert, deadline) ==
  LET Rediffed(p, subDiff) ==
        LineModeLoop(Splice(diffs0, p, count_delete + count_insert, subDiff.diffs),
                     p + Len(subDiff.diffs) + 1, 0, 0, << >>, << >>,
                     subDiff.deadline)
  IN IF pointer >= Len(diffs0) THEN [diffs |-> diffs0, deadline |-> deadline]
     ELSE IF Op(At(diffs0, pointer)) = DIFF_INSERT
     THEN LineModeLoop(diffs0, pointer + 1, count_delete, count_insert + 1,
                       text_delete, text_insert \o Text(At(diffs0, pointer)),
                       deadline)
     ELSE IF Op(At(diffs0, pointer)) = DIFF_DELETE
     THEN LineModeLoop(diffs0, pointer + 1, count_delete + 1, count_insert,
                       text_delete \o Text(At(diffs0, pointer)), text_insert,
                       deadline)
     ELSE IF count_delete >= 1 /\ count_insert >= 1
     THEN Rediffed(pointer - count_delete - count_insert,
                   diff_main(text_delete, text_insert, FALSE, deadline))
     ELSE LineModeLoop(diffs0, pointer + 1, 0, 0, << >>, << >>, deadline)

diff_lineMode_(text1, text2, deadline) ==
  LET Popped(r) ==
        [diffs |-> SubSeq(r.diffs, 1, Len(r.diffs) - 1), deadline |-> r.deadline]
      Lined(lineArray, lined) ==
        Popped(LineModeLoop(
                 Append(diff_cleanupSemantic(
                          diff_charsToLines_(lined.diffs, lineArray)),
                        Diff(DIFF_EQUAL, << >>)),
                 0, 0, 0, << >>, << >>, lined.deadline))
      Chars(a) ==
        Lined(a.lineArray, diff_main(a.chars1, a.chars2, FALSE, deadline))
  IN Chars(diff_linesToChars_(text1, text2))

\* lines 2042-2051: the half match hm was found; diffs_a is the result of
\* the call on the first pair of halves
ComputeHalves(hm, checklines, diffs_a) ==
  Concat(diffs_a.diffs \o <<Diff(DIFF_EQUAL, hm[5])>>,
         diff_main(hm[2], hm[4], checklines, diffs_a.deadline))

\* lines 2041-2055: diff_compute_ once hm = diff_halfMatch_(text1, text2)
ComputeHalfMatch(text1, text2, checklines, deadline, hm) ==
  IF hm # Null
  THEN ComputeHalves(hm, checklines,
                     diff_main(hm[1], hm[3], checklines, deadline))
  ELSE IF checklines /\ Len(text1) > LineModeMin /\ Len(text2) > LineModeMin
  THEN diff_lineMode_(text1, text2, deadline)
  ELSE diff_bisect_(text1, text2, deadline)

diff_compute_(text1, text2, checklines, deadline) ==
  LET longtext == IF Len(text1) > Len(text2) THEN text1 ELSE text2
      shorttext == IF Len(text1) > Len(text2) THEN text2 ELSE text1
      op == IF Len(text1) > Len(text2) THEN DIFF_DELETE ELSE DIFF_INSERT
      Inside(i) ==
        [diffs |-> << Diff(op, Substring(longtext, 0, i)),
                      Diff(DIFF_EQUAL, shorttext),
                      Diff(op, SubstringFrom(longtext, i + Len(shorttext))) >>,
         deadline |-> deadline]
  IN IF text1 = << >>
     THEN [diffs |-> <<Diff(DIFF_INSERT, text2)>>, deadline |-> deadline]
     ELSE IF text2 = << >>
     THEN [diffs |-> <<Diff(DIFF_DELETE, text1)>>, deadline |-> deadline]
     ELSE IF IndexOf(longtext, shorttext) # -1
     THEN Inside(IndexOf(longtext, shorttext))
     ELSE IF Len(shorttext) = 1
     THEN [diffs |-> <<Diff(DIFF_DELETE, text1), Diff(DIFF_INSERT, text2)>>,
           deadline |-> deadline]
     ELSE ComputeHalfMatch(text1, text2, checklines, deadline,
                           diff_halfMatch_(text1, text2))

\* lines 2006-2018: diff_main once the common prefix is cut off text1 and
\* text2 and their common suffix has commonlength characters
MainCompute(commonprefix, text1, text2, checklines, deadline, commonlength) ==
  LET Edit(text) == IF text # << >> THEN <<Diff(DIFF_EQUAL, text)>> ELSE << >>
      Computed(commonsuffix, c) ==
        [diffs |-> diff_cleanupMerge(Edit(commonprefix) \o c.diffs
                                       \o Edit(commonsuffix)),
         deadline |-> c.deadline]
  IN Computed(SubstringFrom(text1, Len(text1) - commonlength),
              diff_compute_(Substring(text1, 0, Len(text1) - commonlength),
                            Substring(text2, 0, Len(text2) - commonlength),
                            checklines, deadline))

\* MainTrim leaving the common prefix on text1
MainTrim_untrimmed(text1, text2, checklines, deadline, commonlength) ==
  MainCompute(Substring(text1, 0, commonlength),
              text1,
              SubstringFrom(text2, commonlength),
              checklines, deadline,
              diff_commonSuffix(text1, SubstringFrom(text2, commonlength)))

\* lines 2002-2005: diff_main once the common prefix has commonlength
\* characters
MainTrim(text1, text2, checklines, deadline, commonlength) ==
  MainCompute(Substring(text1, 0, commonlength),
              SubstringFrom(text1, commonlength),
              SubstringFrom(text2, commonlength),
              checklines, deadline,
              diff_commonSuffix(SubstringFrom(text1, commonlength),
                                SubstringFrom(text2, commonlength)))

diff_main(text1in, text2in, checklines, deadline) ==
  IF text1in = text2in
  THEN [diffs |-> IF text1in # << >> THEN <<Diff(DIFF_EQUAL, text1in)>>
                  ELSE << >>,
        deadline |-> deadline]
  ELSE MainTrim(text1in, text2in, checklines, deadline,
                diff_commonPrefix(text1in, text2in))

\* the texts this call of diff_main hands to diff_bisect_ (lines 2000-2060;
\* the calls it makes to itself are not counted), Null when it hands none
BisectTexts(text1in, text2in, checklines) ==
  LET Computed(text1, text2, longtext, shorttext) ==
        IF text1 = << >> \/ text2 = << >>
           \/ IndexOf(longtext, shorttext) # -1
           \/ Len(shorttext) = 1
           \/ diff_halfMatch_(text1, text2) # Null
           \/ (checklines /\ Len(text1) > LineModeMin /\ Len(text2) > LineModeMin)
        THEN Null
        ELSE <<text1, text2>>
      Compute(text1, text2) ==
        Computed(text1, text2,
                 IF Len(text1) > Len(text2) THEN text1 ELSE text2,
                 IF Len(text1) > Len(text2) THEN text2 ELSE text1)
      Suffix(text1, text2, commonlength) ==
        Compute(Substring(text1, 0, Len(text1) - commonlength),
                Substring(text2, 0, Len(text2) - commonlength))
      Trimmed(text1, text2) == Suffix(text1, text2, diff_commonSuffix(text1, text2))
      Prefix(commonlength) ==
        Trimmed(SubstringFrom(text1in, commonlength),
                SubstringFrom(text2in, commonlength))
  IN IF text1in = text2in THEN Null
     ELSE Prefix(diff_commonPrefix(text1in, text2in))

\* lines 1981-1987: the deadline of a top-level call, given how many clock
\* reads the Diff_Timeout seconds that start now will cover
NewDeadline(reads) == IF Diff_Timeout <= 0 THEN MAX_VALUE ELSE reads

\* ------------------------------------------------------------------------
\* diff_xIndex and diff_levenshtein
\* ------------------------------------------------------------------------
RECURSIVE XIndexLoop(_, _, _, _, _, _, _)
\* the for loop of diff_xIndex: [x, last_chars1, last_chars2] at its exit
XIndexLoop(diffs0, loc, x, chars1, chars2, last_chars1, last_chars2) ==
  IF x >= Len(diffs0)
  THEN [x |-> x, last_chars1 |-> last_chars1, last_chars2 |-> last_chars2]
  ELSE
    LET cur == At(diffs0, x)
        c1 == IF Op(cur) # DIFF_INSERT THEN chars1 + Len(Text(cur)) ELSE chars1
        c2 == IF Op(cur) # DIFF_DELETE THEN chars2 + Len(Text(cur)) ELSE chars2
    IN IF c1 > loc
       THEN [x |-> x, last_chars1 |-> last_chars1, last_chars2 |-> last_chars2]
       ELSE XIndexLoop(diffs0, loc, x + 1, c1, c2, c1, c2)

diff_xIndex(diffs0, loc) ==
  LET r == XIndexLoop(diffs0, loc, 0, 0, 0, 0, 0)
  IN IF Len(diffs0) # r.x /\ Op(At(diffs0, r.x)) = DIFF_DELETE
     THEN r.last_chars2
     ELSE r.last_chars2 + (loc - r.last_chars1)

RECURSIVE LevenshteinLoop(_, _, _, _, _)
LevenshteinLoop(diffs0, x, levenshtein, insertions, deletions) ==
  IF x >= Len(diffs0) THEN levenshtein + Max(insertions, deletions)
  ELSE
    LET cur == At(diffs0, x) IN
    IF Op(cur) = DIFF_INSERT
    THEN LevenshteinLoop(diffs0, x + 1, levenshtein,
                         insertions + Len(Text(cur)), deletions)
    ELSE IF Op(cur) = DIFF_DELETE
    THEN LevenshteinLoop(diffs0, x + 1, levenshtein,
                         insertions, deletions + Len(Text(cur)))
    ELSE LevenshteinLoop(diffs0, x + 1,
                         levenshtein + Max(insertions, deletions), 0, 0)

diff_levenshtein(diffs0) == LevenshteinLoop(diffs0, 0, 0, 0, 0)

\* ------------------------------------------------------------------------
\* Match engine.  A 32 bit integer is the set of its one bits (0 = lowest).
\* A score is the exact fraction the source computes in floating point,
\* held as its numerator over ScoreDen(pattern).
\* ------------------------------------------------------------------------
WordBits == 0..(Match_MaxBits - 1)

\* (a << 1 | 1) on 32 bits
Shl1Or1(a) == {b + 1 : b \in {c \in a : c + 1 \in WordBits}} \cup {0}

\* (1 << d) - 1
LowBits(d) == {b \in WordBits : b < d}

\* s[c] of match_alphabet_(pattern): 1 << (length - i - 1) for every i with
\* pattern.charAt(i) = c, nothing (undefined, 0 in a bit operation) otherwise
match_alphabet_(pattern) ==
  [c \in {pattern[i] : i \in 1..Len(pattern)} |->
     {Len(pattern) - i : i \in {k \in 1..Len(pattern) : pattern[k] = c}}]

ScoreDen(pattern) ==
  HalfDen * Len(pattern) * (IF Match_Distance = 0 THEN 1 ELSE Match_Distance)

\* this.Match_Threshold = 0.5
ThresholdScore(pattern) == ScoreDen(pattern) \div HalfDen

match_bitapScore_(pattern, loc, e, x) ==
  LET proximity == Abs(loc - x)
  IN IF Match_Distance = 0
     THEN IF proximity # 0 THEN HalfDen * Len(pattern) ELSE HalfDen * e
     ELSE HalfDen * (e * Match_Distance + proximity * Len(pattern))

RECURSIVE BitapBin(_, _, _, _, _, _, _)
\* the binary search for the furthest position worth scanning: final bin_mid
BitapBin(pattern, loc, d, score_threshold, bin_min, bin_mid, bin_max) ==
  IF bin_min < bin_mid
  THEN IF match_bitapScore_(pattern, loc, d, loc + bin_mid) <= score_threshold
       THEN BitapBin(pattern, loc, d, score_threshold, bin_mid,
                     (bin_max - bin_mid) \div 2 + bin_mid, bin_max)
       ELSE BitapBin(pattern, loc, d, score_threshold, bin_min,
                     (bin_mid - bin_min) \div 2 + bin_min, bin_mid)
  ELSE bin_mid

\* rd[j] as a bit operation sees it: an array is the sequence of its cells
\* 0, 1, ...; a cell that was never written, or lies outside the array, is
\* undefined, which a bit operation reads as 0
Bits(rd, j) == IF j >= 0 /\ j < Len(rd) THEN At(rd, j) ELSE {}

\* one turn of the loop over j of pass d;
\* st = [rd, score_threshold, best_loc, start, j, done]
BitapScan(text, pattern, loc, s, d, last_rd, st) ==
  IF st.done \/ st.j < st.start THEN [st EXCEPT !.done = TRUE]
  ELSE
    LET j == st.j
        c == CharAt(text, j - 1)
        charMatch == IF c # << >> /\ c[1] \in DOMAIN s THEN s[c[1]] ELSE {}
        exact == Shl1Or1(Bits(st.rd, j + 1)) \cap charMatch
        rdj == IF d = 0 THEN exact
               ELSE exact
                    \cup Shl1Or1(Bits(last_rd, j + 1) \cup Bits(last_rd, j))
                    \cup Bits(last_rd, j + 1)
        rd == SetAt(st.rd, j, rdj)
        score == match_bitapScore_(pattern, loc, d, j - 1)
    IN IF (Len(pattern) - 1) \in rdj /\ score <= st.score_threshold
       THEN IF j - 1 > loc
            THEN [rd |-> rd, score_threshold |-> score, best_loc |-> j - 1,
                  start |-> Max(1, 2 * loc - (j - 1)), j |-> j - 1,
                  done |-> FALSE]
            ELSE [rd |-> rd, score_threshold |-> score, best_loc |-> j - 1,
                  start |-> st.start, j |-> j, done |-> TRUE]
       ELSE [st EXCEPT !.rd = rd, !.j = j - 1]

RECURSIVE BitapScanLoop(_, _, _, _, _, _, _, _)
\* the loop over j of lines 2872-2891, at most n turns from st on
BitapScanLoop(text, pattern, loc, s, d, last_rd, st, n) ==
  LET Rest(half) ==
        IF DOMAIN half = DOMAIN half
        THEN BitapScanLoop(text, pattern, loc, s, d, last_rd, half, n - n \div 2)
        ELSE half
  IN IF n <= 0 \/ st.done THEN st
     ELSE IF n = 1 THEN BitapScan(text, pattern, loc, s, d, last_rd, st)
     ELSE Rest(BitapScanLoop(text, pattern, loc, s, d, last_rd, st, n \div 2))

\* one turn of the loop over the error count d;
\* st = [d, last_rd, bin_max, score_threshold, best_loc, done]
BitapPass(text, pattern, loc, s, st) ==
  LET Scanned(bin_mid, scan) ==
        [d |-> st.d + 1, last_rd |-> scan.rd, bin_max |-> bin_mid,
         score_threshold |-> scan.score_threshold, best_loc |-> scan.best_loc,
         done |-> match_bitapScore_(pattern, loc, st.d + 1, loc)
                    > scan.score_threshold]
      Range(bin_mid, start, finish) ==
        Scanned(bin_mid,
                BitapScanLoop(text, pattern, loc, s, st.d, st.last_rd,
                              [rd |-> SetAt([i \in 1..(finish + 2) |-> {}],
                                            finish + 1, LowBits(st.d)),
                               score_threshold |-> st.score_threshold,
                               best_loc |-> st.best_loc, start |-> start,
                               j |-> finish, done |-> FALSE],
                              finish))
      Bin(bin_mid) ==
        Range(bin_mid, Max(1, loc - bin_mid + 1),
              Min(loc + bin_mid, Len(text)) + Len(pattern))
  IN IF st.done \/ st.d >= Len(pattern) THEN [st EXCEPT !.done = TRUE]
     ELSE Bin(BitapBin(pattern, loc, st.d, st.score_threshold,
                       0, st.bin_max, st.bin_max))

RECURSIVE BitapLoop(_, _, _, _, _, _)
\* the loop over d of lines 2856-2896, at most n turns from st on
BitapLoop(text, pattern, loc, s, st, n) ==
  LET Rest(half) ==
        IF DOMAIN half = DOMAIN half
        THEN BitapLoop(text, pattern, loc, s, half, n - n \div 2)
        ELSE half
  IN IF n <= 0 \/ st.done THEN st
     ELSE IF n = 1 THEN BitapPass(text, pattern, loc, s, st)
     ELSE Rest(BitapLoop(text, pattern, loc, s, st, n \div 2))

\* The result of a function that may throw: [raised, value]
Returned(v) == [raised |-> FALSE, value |-> v]

Thrown == [raised |-> TRUE, value |-> -1]

\* match_bitap_ without the check of lines 2829-2831
match_bitap_unchecked(text, pattern, loc) == Returned(-1)

match_bitap_(text, pattern, loc) ==
  LET Last(t1, last) ==
        IF last # -1
        THEN Min(match_bitapScore_(pattern, loc, 0, last), t1)
        ELSE t1
      First(first) ==
        IF first # -1
        THEN Last(Min(match_bitapScore_(pattern, loc, 0, first),
                      ThresholdScore(pattern)),
                  LastIndexOfFrom(text, pattern, loc + Len(pattern)))
        ELSE ThresholdScore(pattern)
  IN IF Len(pattern) > Match_MaxBits THEN Thrown
     ELSE Returned(BitapLoop(text, pattern, loc, match_alphabet_(pattern),
                             [d |-> 0, last_rd |-> << >>,
                              bin_max |-> Len(pattern) + Len(text),
                              score_threshold |->
                                First(IndexOfFrom(text, pattern, loc)),
                              best_loc |-> -1, done |-> FALSE],
                             Len(pattern)).best_loc)

\* match_main that takes the expected location for the match
match_main_expected(text, pattern, loc0) ==
  IF Len(pattern) > Match_MaxBits THEN Thrown
  ELSE Returned(Max(0, Min(loc0, Len(text))))

match_main(text, pattern, loc0) ==
  LET loc == Max(0, Min(loc0, Len(text)))
  IN IF text = pattern THEN Returned(0)
     ELSE IF Len(text) = 0 THEN Returned(-1)
     ELSE IF Substring(text, loc, loc + Len(pattern)) = pattern THEN Returned(loc)
     ELSE match_bitap_(text, pattern, loc)

\* ------------------------------------------------------------------------
\* Patch construction
\* ------------------------------------------------------------------------
\* this.start1 = null
NoStart == -1

\* new diff_match_patch.patch_obj()
patch_obj ==
  [diffs |-> << >>, start1 |-> NoStart, start2 |-> NoStart,
   length1 |-> 0, length2 |-> 0]

RECURSIVE ContextPadding(_, _, _, _)
\* the while loop of patch_addContext_: the padding at its exit
ContextPadding(patch, text, pattern, padding) ==
  IF IndexOf(text, pattern) # LastIndexOf(text, pattern)
     /\ Len(pattern) < Match_MaxBits - Patch_Margin - Patch_Margin
  THEN ContextPadding(patch, text,
                      Substring(text, patch.start2 - (padding + Patch_Margin),
                                patch.start2 + patch.length1 + padding + Patch_Margin),
                      padding + Patch_Margin)
  ELSE padding

\* patch_addContext_ that leaves start1 and start2 where they were
patch_addContext_unmoved(patch, text) ==
  LET Edit(context) ==
        IF context # << >> THEN <<Diff(DIFF_EQUAL, context)>> ELSE << >>
      Padded(prefix, suffix) ==
        [diffs |-> Edit(prefix) \o patch.diffs \o Edit(suffix),
         start1 |-> patch.start1,
         start2 |-> patch.start2,
         length1 |-> patch.length1 + Len(prefix) + Len(suffix),
         length2 |-> patch.length2 + Len(prefix) + Len(suffix)]
  IN IF Len(text) = 0 THEN Returned(patch)
     ELSE Returned(Padded(Substring(text, patch.start2 - Patch_Margin, patch.start2),
                          Substring(text, patch.start2 + patch.length1,
                                    patch.start2 + patch.length1 + Patch_Margin)))

patch_addContext_(patch, text) ==
  LET Edit(context) ==
        IF context # << >> THEN <<Diff(DIFF_EQUAL, context)>> ELSE << >>
      Context(prefix, suffix) ==
        [diffs |-> Edit(prefix) \o patch.diffs \o Edit(suffix),
         start1 |-> patch.start1 - Len(prefix),
         start2 |-> patch.start2 - Len(prefix),
         length1 |-> patch.length1 + Len(prefix) + Len(suffix),
         length2 |-> patch.length2 + Len(prefix) + Len(suffix)]
      Padded(padding) ==
        Context(Substring(text, patch.start2 - padding, patch.start2),
                Substring(text, patch.start2 + patch.length1,
                          patch.start2 + patch.length1 + padding))
  IN IF Len(text) = 0 THEN Returned(patch)
     ELSE IF patch.start2 = NoStart THEN Thrown
     ELSE Returned(Padded(
            ContextPadding(patch, text,
                           Substring(text, patch.start2,
                                     patch.start2 + patch.length1), 0)
              + Patch_Margin))

\* the local variables of patch_make before its loop
MakeStart(text1) ==
  [patches |-> << >>, patch |-> patch_obj, patchDiffLength |-> 0,
   char_count1 |-> 0, char_count2 |-> 0,
   prepatch_text |-> text1, postpatch_text |-> text1, raised |-> FALSE]

RECURSIVE MakeLoop(_, _, _)
RECURSIVE MakeContext(_, _, _, _, _)
\* the loop of patch_make over diffs[x]
MakeLoop(diffs0, x, st) ==
  IF x >= Len(diffs0) \/ st.raised THEN st
  ELSE
    LET diff_type == Op(At(diffs0, x))
        diff_text == Text(At(diffs0, x))
        started == IF st.patchDiffLength = 0 /\ diff_type # DIFF_EQUAL
                   THEN [st.patch EXCEPT !.start1 = st.char_count1,
                                         !.start2 = st.char_count2]
                   ELSE st.patch
        cc1 == IF diff_type # DIFF_INSERT
               THEN st.char_count1 + Len(diff_text) ELSE st.char_count1
        cc2 == IF diff_type # DIFF_DELETE
               THEN st.char_count2 + Len(diff_text) ELSE st.char_count2
    IN
    IF diff_type = DIFF_INSERT
    THEN MakeLoop(diffs0, x + 1, [st EXCEPT
           !.patch = [started EXCEPT !.diffs = Append(started.diffs, At(diffs0, x)),
                                     !.length2 = started.length2 + Len(diff_text)],
           !.patchDiffLength = st.patchDiffLength + 1,
           !.postpatch_text = Substring(st.postpatch_text, 0, st.char_count2)
                                \o diff_text
                                \o SubstringFrom(st.postpatch_text, st.char_count2),
           !.char_count1 = cc1, !.char_count2 = cc2])
    ELSE IF diff_type = DIFF_DELETE
    THEN MakeLoop(diffs0, x + 1, [st EXCEPT
           !.patch = [started EXCEPT !.diffs = Append(started.diffs, At(diffs0, x)),
                                     !.length1 = started.length1 + Len(diff_text)],
           !.patchDiffLength = st.patchDiffLength + 1,
           !.postpatch_text = Substring(st.postpatch_text, 0, st.char_count2)
                                \o SubstringFrom(st.postpatch_text,
                                                 st.char_count2 + Len(diff_text)),
           !.char_count1 = cc1, !.char_count2 = cc2])
    ELSE IF Len(diff_text) <= 2 * Patch_Margin /\ st.patchDiffLength # 0
            /\ Len(diffs0) # x + 1
    THEN MakeLoop(diffs0, x + 1, [st EXCEPT
           !.patch = [started EXCEPT !.diffs = Append(started.diffs, At(diffs0, x)),
                                     !.length1 = started.length1 + Len(diff_text),
                                     !.length2 = started.length2 + Len(diff_text)],
           !.patchDiffLength = st.patchDiffLength + 1,
           !.char_count1 = cc1, !.char_count2 = cc2])
    ELSE IF Len(diff_text) >= 2 * Patch_Margin /\ st.patchDiffLength # 0
    THEN MakeContext(diffs0, x, st, cc2,
                     patch_addContext_(started, st.prepatch_text))
    ELSE MakeLoop(diffs0, x + 1, [st EXCEPT !.patch = started,
                                            !.char_count1 = cc1,
                                            !.char_count2 = cc2])

\* lines 3002-3009: the patch with its context, ctx, is complete
MakeContext(diffs0, x, st, cc2, ctx) ==
  IF ctx.raised THEN [st EXCEPT !.raised = TRUE]
  ELSE MakeLoop(diffs0, x + 1, [st EXCEPT
         !.patches = Append(st.patches, ctx.value),
         !.patch = patch_obj,
         !.patchDiffLength = 0,
         !.prepatch_text = st.postpatch_text,
         !.char_count1 = st.char_count2 + Len(Text(At(diffs0, x))),
         !.char_count2 = cc2])

\* patch_make from line 2968 on: text1 and diffs are settled
MakePatches(text1, diffs0) ==
  LET Last(patches, ctx) ==
        IF ctx.raised THEN Thrown ELSE Returned(Append(patches, ctx.value))
      Made(st) ==
        IF st.raised THEN Thrown
        ELSE IF st.patchDiffLength # 0
        THEN Last(st.patches, patch_addContext_(st.patch, st.prepatch_text))
        ELSE Returned(st.patches)
  IN IF Len(diffs0) = 0 THEN Returned(<< >>)
     ELSE Made(MakeLoop(diffs0, 0, MakeStart(text1)))

\* patch_make(a, opt_b) with two strings; reads as in NewDeadline
patch_make(a, opt_b, reads) ==
  LET Cleaned(diffs0) ==
        IF Len(diffs0) > 2
        THEN diff_cleanupEfficiency(diff_cleanupSemantic(diffs0))
        ELSE diffs0
  IN MakePatches(a, Cleaned(diff_main(a, opt_b, TRUE, NewDeadline(reads)).diffs))

\* ------------------------------------------------------------------------
\* Patch objects in memory.  patch_apply works on objects it may share with
\* its caller, so the functions that write to patches run on a heap:
\* heap.objs holds the patch objects (their diffs field lists references to
\* cells), heap.cells holds the Diff arrays [op, text].  A reference is an
\* index into one of the two.
\* ------------------------------------------------------------------------
EmptyHeap == [cells |-> << >>, objs |-> << >>]

\* the edit script a list of cell references stands for
CellsOf(h, refs) == [i \in 1..Len(refs) |-> h.cells[refs[i]]]

\* the patch a reference stands for, as a value
PatchOf(h, r) == [h.objs[r] EXCEPT !.diffs = CellsOf(h, h.objs[r].diffs)]

PatchesOf(h, refs) == [i \in 1..Len(refs) |-> PatchOf(h, refs[i])]

\* new Diff(op, text) pushed at the end of the cells
WithCell(h, d) == [h EXCEPT !.cells = Append(h.cells, d)]

NewCellRef(h) == Len(h.cells) + 1

SetCellText(h, r, text) == [h EXCEPT !.cells[r] = Diff(Op(h.cells[r]), text)]

RECURSIVE Store(_, _, _)
\* a heap holding the patches of a sequence of values, one object and one
\* cell per patch and per edit, and the references to them
Store(h, ps, x) ==
  IF x >= Len(ps) THEN [heap |-> h, patches |-> << >>]
  ELSE
    LET p == At(ps, x)
        refs == [y \in 1..Len(p.diffs) |-> Len(h.cells) + y]
        h1 == [cells |-> h.cells \o p.diffs,
               objs |-> Append(h.objs, [p EXCEPT !.diffs = refs])]
        rest == Store(h1, ps, x + 1)
    IN [heap |-> rest.heap, patches |-> <<Len(h1.objs)>> \o rest.patches]

RECURSIVE patch_deepCopy_shared(_, _, _)
\* a copy whose patch objects are new but whose diffs list the same cells
patch_deepCopy_shared(h, patches, x) ==
  IF x >= Len(patches) THEN [heap |-> h, patches |-> << >>]
  ELSE
    LET patch == h.objs[At(patches, x)]
        h1 == [h EXCEPT !.objs = Append(h.objs, patch)]
        rest == patch_deepCopy_shared(h1, patches, x + 1)
    IN [heap |-> rest.heap, patches |-> <<Len(h1.objs)>> \o rest.patches]

RECURSIVE patch_deepCopy(_, _, _)
\* patch_deepCopy(patches), from index x on: a new patch_obj per patch and a
\* new Diff per edit
patch_deepCopy(h, patches, x) ==
  IF x >= Len(patches) THEN [heap |-> h, patches |-> << >>]
  ELSE
    LET patch == h.objs[At(patches, x)]
        copies == [y \in 1..Len(patch.diffs) |->
                     Diff(Op(h.cells[patch.diffs[y]]), Text(h.cells[patch.diffs[y]]))]
        refs == [y \in 1..Len(patch.diffs) |-> Len(h.cells) + y]
        patchCopy == [diffs |-> refs,
                      start1 |-> patch.start1, start2 |-> patch.start2,
                      length1 |-> patch.length1, length2 |-> patch.length2]
        h1 == [cells |-> h.cells \o copies, objs |-> Append(h.objs, patchCopy)]
        rest == patch_deepCopy(h1, patches, x + 1)
    IN [heap |-> rest.heap, patches |-> <<Len(h1.objs)>> \o rest.patches]

\* String.fromCharCode(1) ... String.fromCharCode(Patch_Margin)
NullPadding == [x \in 1..Patch_Margin |-> x]

RECURSIVE PadStarts(_, _, _)
\* the loop of patch_addPadding that bumps the start of every patch
PadStarts(h, patches, x) ==
  IF x >= Len(patches) THEN h
  ELSE LET r == At(patches, x)
       IN PadStarts([h EXCEPT !.objs[r].start1 = h.objs[r].start1 + Patch_Margin,
                              !.objs[r].start2 = h.objs[r].start2 + Patch_Margin],
                    patches, x + 1)

\* lines 3122-3137: padding at the start of the first patch
PadFirst(h, r) ==
  LET patch == h.objs[r]
      ds == patch.diffs
      paddingLength == Patch_Margin
  IN IF Len(ds) = 0 \/ Op(h.cells[ds[1]]) # DIFF_EQUAL
     THEN [WithCell(h, Diff(DIFF_EQUAL, NullPadding)) EXCEPT
             !.objs[r].diffs = <<NewCellRef(h)>> \o ds,
             !.objs[r].start1 = patch.start1 - paddingLength,
             !.objs[r].start2 = patch.start2 - paddingLength,
             !.objs[r].length1 = patch.length1 + paddingLength,
             !.objs[r].length2 = patch.length2 + paddingLength]
     ELSE IF paddingLength > Len(Text(h.cells[ds[1]]))
     THEN LET first == Text(h.cells[ds[1]])
              extraLength == paddingLength - Len(first)
          IN [SetCellText(h, ds[1], SubstringFrom(NullPadding, Len(first)) \o first)
                EXCEPT
                !.objs[r].start1 = patch.start1 - extraLength,
                !.objs[r].start2 = patch.start2 - extraLength,
                !.objs[r].length1 = patch.length1 + extraLength,
                !.objs[r].length2 = patch.length2 + extraLength]
     ELSE h

\* PadLast that adds the padding and leaves length1 and length2 as they are
PadLast_unmeasured(h, r) ==
  LET ds == h.objs[r].diffs
  IN IF Len(ds) = 0 \/ Op(h.cells[ds[Len(ds)]]) # DIFF_EQUAL
     THEN [WithCell(h, Diff(DIFF_EQUAL, NullPadding)) EXCEPT
             !.objs[r].diffs = Append(ds, NewCellRef(h))]
     ELSE h

\* lines 3138-3149: padding at the end of the last patch
PadLast(h, r) ==
  LET patch == h.objs[r]
      ds == patch.diffs
      paddingLength == Patch_Margin
  IN IF Len(ds) = 0 \/ Op(h.cells[ds[Len(ds)]]) # DIFF_EQUAL
     THEN [WithCell(h, Diff(DIFF_EQUAL, NullPadding)) EXCEPT
             !.objs[r].diffs = Append(ds, NewCellRef(h)),
             !.objs[r].length1 = patch.length1 + paddingLength,
             !.objs[r].length2 = patch.length2 + paddingLength]
     ELSE IF paddingLength > Len(Text(h.cells[ds[Len(ds)]]))
     THEN LET last == Text(h.cells[ds[Len(ds)]])
              extraLength == paddingLength - Len(last)
          IN [SetCellText(h, ds[Len(ds)],
                          last \o Substring(NullPadding, 0, extraLength))
                EXCEPT
                !.objs[r].length1 = patch.length1 + extraLength,
                !.objs[r].length2 = patch.length2 + extraLength]
     ELSE h

\* patch_addPadding left out: the patches stay as they are
patch_addPadding_none(copy) == copy

\* patch_addPadding(patches) on copy = [heap, patches], a non-empty list: the
\* heap afterwards and the list (the function returns NullPadding)
patch_addPadding(copy) ==
  [heap |-> PadLast(PadFirst(PadStarts(copy.heap, copy.patches, 0),
                             At(copy.patches, 0)),
                    At(copy.patches, Len(copy.patches) - 1)),
   patches |-> copy.patches]

\* ------------------------------------------------------------------------
\* patch_splitMax
\* ------------------------------------------------------------------------
RECURSIVE SplitFill(_, _)
\* the inner while of patch_splitMax: move edits from bigpatch (the object
\* st.big) into the new patch st.patch until it is full;
\* st = [heap, big, patch, start1, start2, empty]
SplitFill(patch_size, st) ==
  LET h == st.heap
      bigdiffs == h.objs[st.big].diffs
  IN
  IF Len(bigdiffs) = 0 \/ st.patch.length1 >= patch_size - Patch_Margin THEN st
  ELSE
    LET diff_type == Op(h.cells[bigdiffs[1]])
        diff_text == Text(h.cells[bigdiffs[1]])
        pd == st.patch.diffs
    IN
    IF diff_type = DIFF_INSERT
    THEN SplitFill(patch_size, [st EXCEPT
           !.patch.length2 = st.patch.length2 + Len(diff_text),
           !.start2 = st.start2 + Len(diff_text),
           !.patch.diffs = Append(pd, bigdiffs[1]),
           !.heap.objs[st.big].diffs = Tail(bigdiffs),
           !.empty = FALSE])
    ELSE IF diff_type = DIFF_DELETE /\ Len(pd) = 1
            /\ Op(h.cells[pd[1]]) = DIFF_EQUAL
            /\ Len(diff_text) > 2 * patch_size
    THEN SplitFill(patch_size, [st EXCEPT
           !.patch.length1 = st.patch.length1 + Len(diff_text),
           !.start1 = st.start1 + Len(diff_text),
           !.empty = FALSE,
           !.patch.diffs = Append(pd, NewCellRef(h)),
           !.heap = [WithCell(h, Diff(diff_type, diff_text)) EXCEPT
                       !.objs[st.big].diffs = Tail(bigdiffs)]])
    ELSE
      LET part == Substring(diff_text, 0,
                            patch_size - st.patch.length1 - Patch_Margin)
          h1 == WithCell(h, Diff(diff_type, part))
          h2 == IF part = diff_text
                THEN [h1 EXCEPT !.objs[st.big].diffs = Tail(bigdiffs)]
                ELSE SetCellText(h1, bigdiffs[1], SubstringFrom(diff_text, Len(part)))
      IN SplitFill(patch_size, [st EXCEPT
           !.patch.length1 = st.patch.length1 + Len(part),
           !.start1 = st.start1 + Len(part),
           !.patch.length2 = IF diff_type = DIFF_EQUAL
                             THEN st.patch.length2 + Len(part)
                             ELSE st.patch.length2,
           !.start2 = IF diff_type = DIFF_EQUAL
                      THEN st.start2 + Len(part) ELSE st.start2,
           !.empty = IF diff_type = DIFF_EQUAL THEN st.empty ELSE FALSE,
           !.patch.diffs = Append(pd, NewCellRef(h)),
           !.heap = h2])

RECURSIVE SplitBig(_, _)
\* the outer while of patch_splitMax: cut bigpatch (the object st.big) into
\* patches inserted after position st.x;
\* st = [heap, patches, x, big, start1, start2, precontext]
SplitBig(patch_size, st) ==
  LET Insert(f, precontext, patch, h) ==
        SplitBig(patch_size, [st EXCEPT
          !.heap = IF f.empty THEN h ELSE [h EXCEPT !.objs = Append(h.objs, patch)],
          !.patches = IF f.empty THEN st.patches
                      ELSE Splice(st.patches, st.x + 1, 0, <<Len(h.objs) + 1>>),
          !.x = IF f.empty THEN st.x ELSE st.x + 1,
          !.start1 = f.start1,
          !.start2 = f.start2,
          !.precontext = precontext])
      Post(f, precontext, postcontext, lastEqual) ==
        Insert(f, precontext,
               [f.patch EXCEPT
                  !.length1 = f.patch.length1 + Len(postcontext),
                  !.length2 = f.patch.length2 + Len(postcontext),
                  !.diffs = IF postcontext # << >> /\ ~lastEqual
                            THEN Append(f.patch.diffs, NewCellRef(f.heap))
                            ELSE f.patch.diffs],
               IF postcontext = << >> THEN f.heap
               ELSE IF lastEqual
               THEN SetCellText(f.heap, f.patch.diffs[Len(f.patch.diffs)],
                                Text(f.heap.cells[f.patch.diffs[Len(f.patch.diffs)]])
                                  \o postcontext)
               ELSE WithCell(f.heap, Diff(DIFF_EQUAL, postcontext)))
      Pre(f, precontext) ==
        Post(f, SubstringFrom(precontext, Len(precontext) - Patch_Margin),
             Substring(diff_text1(CellsOf(f.heap, f.heap.objs[st.big].diffs)),
                       0, Patch_Margin),
             Len(f.patch.diffs) # 0
               /\ Op(f.heap.cells[f.patch.diffs[Len(f.patch.diffs)]]) = DIFF_EQUAL)
      Filled(f) == Pre(f, diff_text2(CellsOf(f.heap, f.patch.diffs)))
      Fill(precontext) ==
        Filled(SplitFill(patch_size,
                 [heap |-> IF precontext # << >>
                           THEN WithCell(st.heap, Diff(DIFF_EQUAL, precontext))
                           ELSE st.heap,
                  big |-> st.big,
                  patch |-> [diffs |-> IF precontext # << >>
                                       THEN <<NewCellRef(st.heap)>> ELSE << >>,
                             start1 |-> st.start1 - Len(precontext),
                             start2 |-> st.start2 - Len(precontext),
                             length1 |-> Len(precontext),
                             length2 |-> Len(precontext)],
                  start1 |-> st.start1, start2 |-> st.start2,
                  empty |-> TRUE]))
  IN IF Len(st.heap.objs[st.big].diffs) = 0 THEN st
     ELSE Fill(st.precontext)

RECURSIVE SplitLoop(_, _, _, _)
\* the for loop of patch_splitMax over patches[x]
SplitLoop(patch_size, h, patches, x) ==
  LET Cut(r) == SplitLoop(patch_size, r.heap, r.patches, r.x + 1)
  IN IF x >= Len(patches) THEN [heap |-> h, patches |-> patches]
     ELSE IF h.objs[At(patches, x)].length1 <= patch_size
     THEN SplitLoop(patch_size, h, patches, x + 1)
     ELSE Cut(SplitBig(patch_size,
                       [heap |-> h, patches |-> Splice(patches, x, 1, << >>),
                        x |-> x - 1, big |-> At(patches, x),
                        start1 |-> h.objs[At(patches, x)].start1,
                        start2 |-> h.objs[At(patches, x)].start2,
                        precontext |-> << >>]))

\* patch_splitMax that splits nothing
patch_splitMax_none(copy) == copy

\* patch_splitMax(patches) on copy = [heap, patches]: the heap and the list
\* afterwards
patch_splitMax(copy) == SplitLoop(Match_MaxBits, copy.heap, copy.patches, 0)

\* ------------------------------------------------------------------------
\* patch_apply
\* ------------------------------------------------------------------------
RECURSIVE ApplyMods(_, _, _, _, _, _, _)
\* lines 3089-3104: replay the edits of the patch on the imperfect match,
\* mapping each position through diffs0 (expected text against found text)
ApplyMods(mods, diffs0, start_loc, y, index1, index2, text) ==
  LET Mod(mod, i2) ==
        ApplyMods(mods, diffs0, start_loc, y + 1,
                  IF Op(mod) # DIFF_DELETE THEN index1 + Len(Text(mod)) ELSE index1,
                  i2,
                  IF Op(mod) = DIFF_INSERT
                  THEN Substring(text, 0, start_loc + i2) \o Text(mod)
                         \o SubstringFrom(text, start_loc + i2)
                  ELSE IF Op(mod) = DIFF_DELETE
                  THEN Substring(text, 0, start_loc + i2)
                         \o SubstringFrom(text,
                              start_loc + diff_xIndex(diffs0, index1 + Len(Text(mod))))
                  ELSE text)
  IN IF y >= Len(mods) THEN text
     ELSE Mod(At(mods, y),
              IF Op(At(mods, y)) # DIFF_EQUAL
              THEN diff_xIndex(diffs0, index1) ELSE index2)

\* lines 3058-3068: where the patch whose source text is text1 is found in
\* text, as [raised, start_loc, end_loc]
ApplyLocate(text, text1, expected_loc) ==
  LET Whole(s) == [raised |-> s.raised, start_loc |-> s.value, end_loc |-> -1]
      End(s, e) ==
        IF e.raised THEN [raised |-> TRUE, start_loc |-> -1, end_loc |-> -1]
        ELSE IF e.value = -1 \/ s.value >= e.value
        THEN [raised |-> FALSE, start_loc |-> -1, end_loc |-> e.value]
        ELSE [raised |-> FALSE, start_loc |-> s.value, end_loc |-> e.value]
      Start(s) ==
        IF s.raised THEN [raised |-> TRUE, start_loc |-> -1, end_loc |-> -1]
        ELSE IF s.value = -1
        THEN [raised |-> FALSE, start_loc |-> -1, end_loc |-> -1]
        ELSE End(s, match_main(text,
                               SubstringFrom(text1, Len(text1) - Match_MaxBits),
                               expected_loc + Len(text1) - Match_MaxBits))
  IN IF Len(text1) > Match_MaxBits
     THEN Start(match_main(text, Substring(text1, 0, Match_MaxBits), expected_loc))
     ELSE Whole(match_main(text, text1, expected_loc))

RECURSIVE ApplyLoop(_, _, _)

\* the text found at loc where text1 was expected (lines 3075-3080)
ApplyFound(text, text1, loc) ==
  IF loc.end_loc = -1
  THEN Substring(text, loc.start_loc, loc.start_loc + Len(text1))
  ELSE Substring(text, loc.start_loc, loc.end_loc + Match_MaxBits)

\* a turn of the loop that gives up where the patch is not located
ApplyPatch_raise(ps, x, st, loc, diffs0) ==
  IF loc.start_loc = -1 THEN [st EXCEPT !.raised = TRUE]
  ELSE ApplyLoop(ps, x + 1, [st EXCEPT
         !.start_locs = Append(st.start_locs, loc.start_loc),
         !.results = Append(st.results, TRUE),
         !.delta = loc.start_loc - (At(ps, x).start2 + st.delta)])

\* lines 3069-3107, one turn of the for loop of patch_apply once the patch
\* ps[x] is located at loc; diffs0 is the rediff of line 3084, which only
\* the branch of an imperfect match reads
ApplyPatch(ps, x, st, loc, diffs0) ==
  LET patch == At(ps, x)
      expected_loc == At(ps, x).start2 + st.delta
      text1 == diff_text1(At(ps, x).diffs)
      text2 == ApplyFound(st.text, text1, loc)
      delta == IF loc.start_loc = -1
               THEN st.delta - (patch.length2 - patch.length1)
               ELSE loc.start_loc - expected_loc
      Turn(result, text) ==
        ApplyLoop(ps, x + 1, [st EXCEPT
          !.start_locs = Append(st.start_locs, loc.start_loc),
          !.results = Append(st.results, result),
          !.delta = delta,
          !.text = text,
          !.turns = Append(st.turns,
                           [patch |-> patch, delta |-> delta, text |-> text,
                            found |-> IF loc.start_loc = -1 THEN << >> ELSE text2,
                            distance |-> IF loc.start_loc = -1 \/ text1 = text2
                                         THEN 0 ELSE diff_levenshtein(diffs0)])])
  IN IF loc.raised THEN [st EXCEPT !.raised = TRUE]
     ELSE IF loc.start_loc = -1 THEN Turn(FALSE, st.text)
     ELSE IF text1 = text2
     THEN Turn(TRUE, Substring(st.text, 0, loc.start_loc)
                       \o diff_text2(patch.diffs)
                       \o SubstringFrom(st.text, loc.start_loc + Len(text1)))
     ELSE IF Len(text1) > Match_MaxBits
             /\ HalfDen * diff_levenshtein(diffs0) > Len(text1)
     THEN Turn(FALSE, st.text)
     ELSE Turn(TRUE, ApplyMods(patch.diffs, diff_cleanupSemanticLossless(diffs0),
                               loc.start_loc, 0, 0, 0, st.text))

\* one turn of the loop once the patch ps[x] is located at loc
ApplyLocated(ps, x, st, loc) ==
  ApplyPatch(ps, x, st, loc,
             diff_main(diff_text1(At(ps, x).diffs),
                       ApplyFound(st.text, diff_text1(At(ps, x).diffs), loc),
                       FALSE, NewDeadline(st.reads)).diffs)

\* the for loop of patch_apply over the working patches ps;
\* st = [text, delta, results, raised, reads, start_locs, turns]; every
\* rediff gets a deadline of its own, reads clock reads away; start_locs
\* keeps the start_loc of every turn, and turns what every turn left: the
\* patch, delta, the text, the text found where the patch was located and its Levenshtein
\* distance from the text expected
ApplyLoop(ps, x, st) ==
  IF x >= Len(ps) \/ st.raised THEN st
  ELSE ApplyLocated(ps, x, st,
                    ApplyLocate(st.text, diff_text1(At(ps, x).diffs),
                                At(ps, x).start2 + st.delta))

\* patch_apply from line 3049 on: the working patches are split, the text
\* is padded, the loop runs and the padding is removed
ApplyAll(split, text, reads) ==
  LET Applied(st) ==
        [text |-> Substring(st.text, Len(NullPadding),
                            Len(st.text) - Len(NullPadding)),
         results |-> st.results, raised |-> st.raised, heap |-> split.heap,
         work |-> Len(split.patches), start_locs |-> st.start_locs,
         turns |-> st.turns]
  IN Applied(ApplyLoop(PatchesOf(split.heap, split.patches), 0,
                       [text |-> NullPadding \o text \o NullPadding,
                        delta |-> 0, results |-> << >>, raised |-> FALSE,
                        reads |-> reads, start_locs |-> << >>,
                        turns |-> << >>]))

\* patch_apply(patches, text) on the heap h: what it returns (text, results),
\* whether it threw, the heap it leaves behind, how many working patches the
\* loop had to go through and the start_loc of each turn it made
patch_apply(h, patches, text, reads) ==
  IF Len(patches) = 0
  THEN [text |-> text, results |-> << >>, raised |-> FALSE, heap |-> h,
        work |-> 0, start_locs |-> << >>, turns |-> << >>]
  ELSE ApplyAll(patch_splitMax(patch_addPadding(patch_deepCopy(h, patches, 0))),
                text, reads)

\* ------------------------------------------------------------------------
\* Delta encoding: diff_toDelta and diff_fromDelta, with the encodeURI,
\* decodeURI and parseInt they call.  A string is the sequence of its
\* UTF-16 code units.
\* ------------------------------------------------------------------------
\* the reserved characters ; / ? : @ & = + $ , and #
UriReserved == {59, 47, 63, 58, 64, 38, 61, 43, 36, 44, 35}

\* digits, letters and - _ . ! ~ * ' ( )
UriUnescaped ==
  (48..57) \cup (65..90) \cup (97..122) \cup {45, 95, 46, 33, 126, 42, 39, 40, 41}

\* the high and the low surrogates of UTF-16
HighSurrogates == 55296..56319

LowSurrogates == 56320..57343

\* the hexadecimal digit of d, in upper case
HexChar(d) == IF d < 10 THEN 48 + d ELSE 55 + d

\* the octets of the code point v in UTF-8
Utf8(v) ==
  IF v < 128 THEN <<v>>
  ELSE IF v < 2048 THEN <<192 + v \div 64, 128 + (v % 64)>>
  ELSE IF v < 65536
  THEN <<224 + v \div 4096, 128 + ((v \div 64) % 64), 128 + (v % 64)>>
  ELSE <<240 + v \div 262144, 128 + ((v \div 4096) % 64),
         128 + ((v \div 64) % 64), 128 + (v % 64)>>

\* "%XX" for every octet of the code point v
PercentEncode(v) ==
  Join([i \in 1..Len(Utf8(v)) |->
          <<37, HexChar(Utf8(v)[i] \div 16), HexChar(Utf8(v)[i] % 16)>>])

RECURSIVE EncodeLoop(_, _, _)
\* encodeURI from code unit k on: a character of the two sets above stays,
\* a lone surrogate throws URIError, any other code point is escaped
EncodeLoop(text, k, acc) ==
  IF k >= Len(text) THEN [raised |-> FALSE, value |-> acc]
  ELSE IF At(text, k) \in UriUnescaped \cup UriReserved
  THEN EncodeLoop(text, k + 1, Append(acc, At(text, k)))
  ELSE IF At(text, k) \in LowSurrogates THEN [raised |-> TRUE, value |-> -1]
  ELSE IF At(text, k) \notin HighSurrogates
  THEN EncodeLoop(text, k + 1, acc \o PercentEncode(At(text, k)))
  ELSE IF k + 1 >= Len(text) THEN [raised |-> TRUE, value |-> -1]
  ELSE IF At(text, k + 1) \notin LowSurrogates
  THEN [raised |-> TRUE, value |-> -1]
  ELSE EncodeLoop(text, k + 2,
                  acc \o PercentEncode((At(text, k) - 55296) * 1024
                                         + (At(text, k + 1) - 56320) + 65536))

encodeURI(text) == EncodeLoop(text, 0, << >>)

\* the value of a hexadecimal digit, -1 for any other character
HexValue(c) ==
  IF c \in 48..57 THEN c - 48
  ELSE IF c \in 65..70 THEN c - 55
  ELSE IF c \in 97..102 THEN c - 87
  ELSE -1

\* the octet that "%XX" at position k of s stands for, -1 if there is no
\* "%" followed by two hexadecimal digits at k
OctetAt(s, k) ==
  IF k + 2 >= Len(s) THEN -1
  ELSE IF At(s, k) # 37 \/ HexValue(At(s, k + 1)) < 0 \/ HexValue(At(s, k + 2)) < 0
  THEN -1
  ELSE 16 * HexValue(At(s, k + 1)) + HexValue(At(s, k + 2))

\* the code point of the UTF-8 sequence that starts with octet b and goes on
\* with the octets cont, -1 if it is none (a wrong first or later octet, an
\* overlong form, a surrogate, a value above U+10FFFF)
Utf8Value(b, cont) ==
  LET Low(j) == cont[j] - 128
      v == IF Len(cont) = 1 THEN (b - 192) * 64 + Low(1)
           ELSE IF Len(cont) = 2 THEN (b - 224) * 4096 + Low(1) * 64 + Low(2)
           ELSE (b - 240) * 262144 + Low(1) * 4096 + Low(2) * 64 + Low(3)
      least == IF Len(cont) = 1 THEN 128 ELSE IF Len(cont) = 2 THEN 2048 ELSE 65536
  IN IF \E j \in 1..Len(cont) : cont[j] \notin 128..191 THEN -1
     ELSE IF v < least \/ v > 1114111 THEN -1
     ELSE IF v \in HighSurrogates \cup LowSurrogates THEN -1
     ELSE v

\* how many octets a UTF-8 sequence starting with b has, 0 if none starts so
OctetCount(b) ==
  IF b \in 192..223 THEN 2
  ELSE IF b \in 224..239 THEN 3
  ELSE IF b \in 240..247 THEN 4
  ELSE 0

\* the code units of the code point v
CodeUnits(v) ==
  IF v < 65536 THEN <<v>>
  ELSE <<55296 + (v - 65536) \div 1024, 56320 + ((v - 65536) % 1024)>>

RECURSIVE DecodeLoop(_, _, _)
\* decodeURI from position k on: "%XX" sequences become the character they
\* encode, except those of a reserved character, which stay as written; a
\* malformed sequence throws URIError
DecodeLoop(s, k, acc) ==
  LET b == OctetAt(s, k)
      n == OctetCount(b)
      v == Utf8Value(b, [j \in 1..(n - 1) |-> OctetAt(s, k + 3 * j)])
  IN IF k >= Len(s) THEN [raised |-> FALSE, value |-> acc]
     ELSE IF At(s, k) # 37 THEN DecodeLoop(s, k + 1, Append(acc, At(s, k)))
     ELSE IF b < 0 THEN [raised |-> TRUE, value |-> -1]
     ELSE IF b < 128
     THEN DecodeLoop(s, k + 3,
                     acc \o (IF b \in UriReserved THEN Substring(s, k, k + 3)
                             ELSE <<b>>))
     ELSE IF n = 0 THEN [raised |-> TRUE, value |-> -1]
     ELSE IF v < 0 THEN [raised |-> TRUE, value |-> -1]
     ELSE DecodeLoop(s, k + 3 * n, acc \o CodeUnits(v))

decodeURI(s) == DecodeLoop(s, 0, << >>)

RECURSIVE ToDecimal(_)
\* "" + n for a length n: its decimal digits
ToDecimal(n) ==
  IF n < 10 THEN <<48 + n>> ELSE ToDecimal(n \div 10) \o <<48 + (n % 10)>>

RECURSIVE ReplaceEscapedSpaces(_)
\* .replace(/%20/g, " ")
ReplaceEscapedSpaces(s) ==
  IF IndexOf(s, <<37, 50, 48>>) = -1 THEN s
  ELSE Substring(s, 0, IndexOf(s, <<37, 50, 48>>)) \o <<32>>
         \o ReplaceEscapedSpaces(SubstringFrom(s, IndexOf(s, <<37, 50, 48>>) + 3))

RECURSIVE JoinTab(_)
\* tokens.join("\t")
JoinTab(tokens) ==
  IF Len(tokens) = 0 THEN << >>
  ELSE IF Len(tokens) = 1 THEN tokens[1]
  ELSE tokens[1] \o <<9>> \o JoinTab(Tail(tokens))

\* the token of one edit: "+" and the escaped text, "-" or "=" and the length
DeltaToken(d) ==
  LET Plus(enc) == IF enc.raised THEN enc
                   ELSE [raised |-> FALSE, value |-> <<43>> \o enc.value]
  IN IF Op(d) = DIFF_INSERT THEN Plus(encodeURI(Text(d)))
     ELSE IF Op(d) = DIFF_DELETE
     THEN [raised |-> FALSE, value |-> <<45>> \o ToDecimal(Len(Text(d)))]
     ELSE [raised |-> FALSE, value |-> <<61>> \o ToDecimal(Len(Text(d)))]

\* diff_toDelta(diffs): [raised, value]
diff_toDelta(diffs) ==
  LET Joined(tokens) ==
        IF \E x \in 1..Len(tokens) : tokens[x].raised
        THEN [raised |-> TRUE, value |-> -1]
        ELSE [raised |-> FALSE,
              value |-> ReplaceEscapedSpaces(
                          JoinTab([x \in 1..Len(tokens) |-> tokens[x].value]))]
  IN Joined([x \in 1..Len(diffs) |-> DeltaToken(diffs[x])])

RECURSIVE SplitTab(_)
\* delta.split(/\t/g)
SplitTab(s) ==
  IF IndexOf(s, <<9>>) = -1 THEN <<s>>
  ELSE <<Substring(s, 0, IndexOf(s, <<9>>))>>
         \o SplitTab(SubstringFrom(s, IndexOf(s, <<9>>) + 1))

RECURSIVE DigitsValue(_, _)
\* the number the leading decimal digits of s stand for, after acc
DigitsValue(s, acc) ==
  IF s = << >> \/ Head(s) \notin 48..57 THEN acc
  ELSE DigitsValue(Tail(s), 10 * acc + (Head(s) - 48))

RECURSIVE parseInt(_)
\* parseInt(s, 10): [nan, n]; leading white space is skipped, a sign is read,
\* then the digits up to the first other character
parseInt(s) ==
  LET Signed(sign, digits) ==
        IF digits = << >> \/ Head(digits) \notin 48..57
        THEN [nan |-> TRUE, n |-> 0]
        ELSE [nan |-> FALSE, n |-> sign * DigitsValue(digits, 0)]
  IN IF s # << >> /\ Head(s) \in Whitespace THEN parseInt(Tail(s))
     ELSE IF s # << >> /\ Head(s) = 45 THEN Signed(-1, Tail(s))
     ELSE IF s # << >> /\ Head(s) = 43 THEN Signed(1, Tail(s))
     ELSE Signed(1, s)

RECURSIVE FromDeltaLoop(_, _, _, _, _)
\* the for loop of diff_fromDelta over tokens[x], and the length check that
\* follows it
FromDeltaLoop(text1, tokens, x, diffs, pointer) ==
  LET token == At(tokens, x)
      param == SubstringFrom(token, 1)
      Inserted(dec) ==
        IF dec.raised THEN dec
        ELSE FromDeltaLoop(text1, tokens, x + 1,
                           Append(diffs, Diff(DIFF_INSERT, dec.value)), pointer)
      Counted(op, num) ==
        IF num.nan \/ num.n < 0 THEN [raised |-> TRUE, value |-> -1]
        ELSE FromDeltaLoop(text1, tokens, x + 1,
                           Append(diffs, Diff(op, Substring(text1, pointer,
                                                            pointer + num.n))),
                           pointer + num.n)
  IN IF x >= Len(tokens)
     THEN IF pointer # Len(text1) THEN [raised |-> TRUE, value |-> -1]
          ELSE [raised |-> FALSE, value |-> diffs]
     ELSE IF CharAt(token, 0) = <<43>> THEN Inserted(decodeURI(param))
     ELSE IF CharAt(token, 0) = <<45>> THEN Counted(DIFF_DELETE, parseInt(param))
     ELSE IF CharAt(token, 0) = <<61>> THEN Counted(DIFF_EQUAL, parseInt(param))
     ELSE IF token # << >> THEN [raised |-> TRUE, value |-> -1]
     ELSE FromDeltaLoop(text1, tokens, x + 1, diffs, pointer)

\* diff_fromDelta that only checks that the delta does not run past the end
\* of text1 (pointer > text1.length)
diff_fromDelta_longer(text1, delta) ==
  LET fits == {n \in 0..Len(text1) :
                 ~FromDeltaLoop(Substring(text1, 0, n), SplitTab(delta), 0,
                                << >>, 0).raised}
  IN IF fits = {} THEN [raised |-> TRUE, value |-> -1]
     ELSE FromDeltaLoop(Substring(text1, 0, SetMin(fits)), SplitTab(delta), 0,
                        << >>, 0)

\* diff_fromDelta(text1, delta): [raised, value]
diff_fromDelta(text1, delta) == FromDeltaLoop(text1, SplitTab(delta), 0, << >>, 0)

\* ------------------------------------------------------------------------
\* The public functions as a caller reaches them: a text argument is a
\* string, null or undefined.  null and undefined are the one element
\* sequences of a code no string holds.
\* ------------------------------------------------------------------------
Nullish == {<<-1>>, <<-2>>}

\* "" + v: the string v, "null" or "undefined"
ToText(v) ==
  IF v = <<-1>> THEN <<110, 117, 108, 108>>
  ELSE IF v = <<-2>> THEN <<117, 110, 100, 101, 102, 105, 110, 101, 100>>
  ELSE v

\* ------------------------------------------------------------------------
\* The timestamp routes (src/script.js, src/app.js, src/routes/api.js,
\* src/timestamp-microservice/index.js).  A number is [nan, n] as parseInt
\* gives it; a Date is its time value, a number of milliseconds; the
\* parameter of a request is a string or undefined.  The response object
\* res is [sent, calls, raised]: the bodies sent, the calls of res.json
\* made, and whether one of them threw.
\* ------------------------------------------------------------------------
NaN == [nan |-> TRUE, n |-> 0]

Number(n) == [nan |-> FALSE, n |-> n]

undefined == <<-2>>

\* the milliseconds of a day
MsPerDay == 24 * 60 * 60 * 1000

\* /^\d+$/
AllDigits(s) == s # << >> /\ \A i \in 1..Len(s) : s[i] \in 48..57

\* Number(s) for a string of digits, "-" and letters: the empty string is 0,
\* digits with or without a sign are their value, anything else is NaN
NumberOf(s) ==
  IF s = << >> THEN Number(0)
  ELSE IF AllDigits(s) THEN Number(DigitsValue(s, 0))
  ELSE IF s[1] \in {43, 45} /\ AllDigits(Tail(s))
  THEN Number((IF s[1] = 45 THEN -1 ELSE 1) * DigitsValue(Tail(s), 0))
  ELSE NaN

\* isNaN(v) for a parameter: undefined is NaN, a string is what Number
\* makes of it
IsNaNParam(v) == IF v = undefined THEN TRUE ELSE NumberOf(v).nan

\* !v: undefined and the empty string are falsy
Falsy(v) == v = undefined \/ v = << >>

\* /^\d{4}-/.test(v), undefined tested as "undefined"
YearDash(v) ==
  /\ v # undefined
  /\ Len(v) >= 5
  /\ AllDigits(SubSeq(v, 1, 4))
  /\ v[5] = 45

\* /^\d{13}$/.test(s) and /^\d{5,}$/.test(s)
Digits13(s) == Len(s) = 13 /\ AllDigits(s)
Digits5(s) == Len(s) >= 5 /\ AllDigits(s)

\* the days of month m of year y
DaysIn(y, m) ==
  IF m = 2 THEN (IF y % 4 = 0 /\ (y % 100 # 0 \/ y % 400 = 0) THEN 29 ELSE 28)
  ELSE IF m \in {4, 6, 9, 11} THEN 30 ELSE 31

RECURSIVE DaysBefore(_, _)
\* the days of year y before month m
DaysBefore(y, m) == IF m <= 1 THEN 0 ELSE DaysBefore(y, m - 1) + DaysIn(y, m - 1)

\* the days from 1970-01-01 to the first day of year y
YearDays(y) ==
  365 * (y - 1970) + (y - 1969) \div 4 - (y - 1901) \div 100 + (y - 1601) \div 400

\* Date.parse(s).  The date forms of the ECMAScript format (YYYY, YYYY-MM,
\* YYYY-MM-DD) give the time value of that day at 00:00 UTC, or NaN when a
\* field is out of range; what any other string gives is left to the
\* implementation, and is impl here (so is a day past the end of a month)
DateParse(s, impl) ==
  LET year == DigitsValue(SubSeq(s, 1, 4), 0)
      month == IF Len(s) >= 7 THEN DigitsValue(SubSeq(s, 6, 7), 0) ELSE 1
      day == IF Len(s) = 10 THEN DigitsValue(SubSeq(s, 9, 10), 0) ELSE 1
      shaped == /\ Len(s) \in {4, 7, 10}
                /\ AllDigits(SubSeq(s, 1, 4))
                /\ Len(s) >= 7 => s[5] = 45 /\ AllDigits(SubSeq(s, 6, 7))
                /\ Len(s) = 10 => s[8] = 45 /\ AllDigits(SubSeq(s, 9, 10))
  IN IF ~shaped THEN impl
     ELSE IF month \notin 1..12 \/ day \notin 1..31 THEN NaN
     ELSE IF day > DaysIn(year, month) THEN impl
     ELSE Number((YearDays(year) + DaysBefore(year, month) + day - 1) * MsPerDay)

\* new Date(v) for a number v
DateOfNumber(v) == v

\* date.toUTCString(): "Invalid Date", or the week day (0 is Sunday), the
\* day counted from 1970-01-01 and the time of day
toUTCString(date) ==
  IF date.nan THEN "Invalid Date"
  ELSE [weekday |-> (4 + date.n \div MsPerDay) % 7,
        day |-> date.n \div MsPerDay,
        time |-> date.n % MsPerDay]

\* the year, month and day of the month of a date in the time zone tz
\* milliseconds ahead of UTC, from December 1969 to January 1970
LocalDate(date, tz) ==
  LET day == (date.n + tz) \div MsPerDay
  IN IF date.nan THEN <<NaN, NaN, NaN>>
     ELSE IF day < 0 THEN <<Number(1969), Number(12), Number(32 + day)>>
     ELSE <<Number(1970), Number(1), Number(day + 1)>>

RECURSIVE SplitDash(_, _)
\* s.split("-"), the part being read in part
SplitDash(s, part) ==
  IF s = << >> THEN <<part>>
  ELSE IF Head(s) = 45 THEN <<part>> \o SplitDash(Tail(s), << >>)
  ELSE SplitDash(Tail(s), Append(part, Head(s)))

\* a !== b for the element i of an array of numbers (undefined past its
\* end) and a number: NaN is different from every number
Differs(numbers, i, b) ==
  i > Len(numbers) \/ numbers[i].nan \/ b.nan \/ numbers[i].n # b.n

\* a response nothing was sent on
NewResponse == [sent |-> << >>, calls |-> 0, raised |-> FALSE]

\* res.json(body): the body is sent; on a response already sent the call
\* throws (the headers cannot be set twice); after a throw nothing runs
json(res, body) ==
  IF res.raised THEN res
  ELSE IF Len(res.sent) > 0
  THEN [res EXCEPT !.calls = res.calls + 1, !.raised = TRUE]
  ELSE [res EXCEPT !.calls = res.calls + 1, !.sent = Append(res.sent, body)]

\* { unix: date.getTime(), utc: date.toUTCString() }; as JSON a unix of NaN
\* is null
TimeBody(date) == [unix |-> date, utc |-> toUTCString(date)]

ErrorBody == [error |-> "Invalid Date"]

\* src/script.js, app.get("/api/timestamp/:date_string?")
timestamp_date_string(reqString, impl) ==
  LET resDate == IF YearDash(reqString) THEN DateParse(reqString, impl)
                 ELSE DateOfNumber(parseInt(ToText(reqString)))
      Checked(res) == json(res, TimeBody(resDate))
  IN Checked(IF resDate.nan THEN json(NewResponse, ErrorBody) ELSE NewResponse)

\* src/app.js, app.get('/api/:date?')
app_api_date(dateInput, now, impl) ==
  LET date == IF IsNaNParam(dateInput) THEN DateParse(dateInput, impl)
              ELSE DateOfNumber(parseInt(dateInput))
  IN IF Falsy(dateInput) THEN json(NewResponse, TimeBody(Number(now)))
     ELSE IF date.nan THEN json(NewResponse, ErrorBody)
     ELSE json(NewResponse, TimeBody(date))

\* src/routes/api.js, router.get('/:date?')
router_date(dateParam, now, impl) ==
  LET date == IF ~Falsy(dateParam)
              THEN (IF ~IsNaNParam(dateParam)
                    THEN DateOfNumber(parseInt(dateParam))
                    ELSE DateParse(dateParam, impl))
              ELSE Number(now)
  IN IF ~date.nan THEN json(NewResponse, TimeBody(date))
     ELSE json(NewResponse, ErrorBody)

\* src/timestamp-microservice/index.js, the handler of lines 52-102
index_api_date(date_string, now, impl, tz) ==
  LET date == IF Falsy(date_string) THEN Number(now)
              ELSE IF Digits5(date_string)
              THEN DateOfNumber(parseInt(date_string))
              ELSE DateParse(date_string, impl)
      inputDate == IF Falsy(date_string) THEN << >>
                   ELSE [i \in 1..Len(SplitDash(date_string, << >>)) |->
                           NumberOf(SplitDash(date_string, << >>)[i])]
      parsed == LocalDate(date, tz)
  IN IF ~Falsy(date_string) /\ ~Digits5(date_string)
        /\ (Differs(inputDate, 1, parsed[1]) \/ Differs(inputDate, 2, parsed[2])
            \/ Differs(inputDate, 3, parsed[3]))
     THEN json(NewResponse, ErrorBody)
     ELSE IF ~date.nan THEN json(NewResponse, TimeBody(date))
     ELSE json(NewResponse, ErrorBody)

\* ------------------------------------------------------------------------
\* The caller: inputs and operations
\* ------------------------------------------------------------------------
\* the characters "a" and "b"
Alphabet == {97, 98}

RECURSIVE SeqsUpTo(_, _)
\* all sequences over S of length at most n
SeqsUpTo(S, n) ==
  IF n = 0 THEN {<< >>}
  ELSE LET shorter == SeqsUpTo(S, n - 1)
       IN shorter \cup {Append(t, c) : t \in {u \in shorter : Len(u) = n - 1}, c \in S}

Texts == SeqsUpTo(Alphabet, MaxLen)

\* how many clock reads may precede the deadline of a top-level call;
\* MAX_VALUE reads stand for a call that finishes in time
Clocks == (0..MaxClock) \cup {MAX_VALUE}

\* a text of LongLen different characters, "e", "f", ...
LongText == [i \in 1..LongLen |-> 100 + i]

\* the texts patches are made of: all short texts, and a long text that is
\* emptied, or changed in one place, or changed in two places far apart, or
\* shortened by one character
PatchPairs ==
  (SeqsUpTo(Alphabet, MaxPatchLen) \X SeqsUpTo(Alphabet, MaxPatchLen))
    \cup {<<LongText, << >> >>,
          <<LongText, SetAt(LongText, LongLen \div 2, 97)>>,
          <<LongText, SetAt(SetAt(LongText, LongLen \div 8, 97),
                           LongLen - LongLen \div 8, 98)>>,
          <<LongText, Splice(LongText, LongLen \div 2, 1, << >>)>>}

\* text with extra inserted before position p
InsertAt(text, p, extra) ==
  Substring(text, 0, p) \o extra \o SubstringFrom(text, p)

\* the extra texts a target may have gained: "a", "x", "xy"
Extras == {<<97>>, <<120>>, <<120, 121>>}

\* the texts patches are applied to: the text they were made from, any short
\* text, the text they were made from with extra text somewhere, and its
\* second half alone
Targets(text) ==
  {text, SubstringFrom(text, Len(text) \div 2)}
    \cup SeqsUpTo(Alphabet, MaxTarget)
    \cup {InsertAt(text, p, extra) : p \in 0..Len(text), extra \in Extras}

\* every edit script of at most MaxEdits edits with texts of at most
\* MaxEditLen characters, well formed or not
RawEdits ==
  {Diff(op, text) : op \in {DIFF_DELETE, DIFF_INSERT, DIFF_EQUAL},
                    text \in SeqsUpTo(Alphabet, MaxEditLen)}

RawScripts == SeqsUpTo(RawEdits, MaxEdits)

NoResult ==
  [text |-> << >>, results |-> << >>, raised |-> FALSE, work |-> 0,
   start_locs |-> << >>]

\* before any call that may throw
NoCall == [raised |-> FALSE, value |-> << >>]

\* the characters "a", " ", "%", tab, and the surrogates of U+1F600 and
\* U+1F601
DeltaAlphabet == {97, 32, 37, 9, 55357, 56832, 56833}

\* a text of whole characters: every surrogate is half of a pair
WellFormed(t) ==
  /\ \A i \in 1..Len(t) :
       t[i] \in HighSurrogates => i < Len(t) /\ t[i + 1] \in LowSurrogates
  /\ \A i \in 1..Len(t) :
       t[i] \in LowSurrogates => i > 1 /\ t[i - 1] \in HighSurrogates

\* the texts deltas are made of: every well formed text of at most
\* MaxDeltaLen code units
DeltaTexts == {t \in SeqsUpTo(DeltaAlphabet, MaxDeltaLen) : WellFormed(t)}

\* the pairs of texts deltas are made of: the short ones, and a long text
\* with a space in the place of one character
DeltaPairs ==
  (DeltaTexts \X DeltaTexts) \cup {<<LongText, SetAt(LongText, LongLen \div 2, 32)>>}

\* a caller holding two texts; Diff_Timeout is 1 second, or 0 (no limit)
Init ==
  /\ Diff_Timeout \in {0, 1}
  /\ pc = "start"
  /\ A \in Texts
  /\ B \in Texts
  /\ opt_checklines = TRUE
  /\ script = << >>
  /\ patchSeq = << >>
  /\ applied = NoResult
  /\ target = << >>
  /\ outcome = NoCall

\* a caller holding two texts to make patches of
InitPatch ==
  /\ Diff_Timeout = 1
  /\ pc = "start"
  /\ \E pair \in PatchPairs : A = pair[1] /\ B = pair[2]
  /\ opt_checklines = TRUE
  /\ script = << >>
  /\ patchSeq = << >>
  /\ applied = NoResult
  /\ target = << >>
  /\ outcome = NoCall

\* a caller holding two texts to send as a delta
InitDelta ==
  /\ Diff_Timeout = 1
  /\ pc = "start"
  /\ \E pair \in DeltaPairs : A = pair[1] /\ B = pair[2]
  /\ opt_checklines = TRUE
  /\ script = << >>
  /\ patchSeq = << >>
  /\ applied = NoResult
  /\ target = << >>
  /\ outcome = NoCall

\* the texts patches are made of, and the long text with a character
\* removed or added near its start and another changed near its end
MakePairs ==
  PatchPairs
    \cup {<<LongText, Splice(SetAt(LongText, LongLen - LongLen \div 8, 98),
                              LongLen \div 8, 1, << >>)>>,
          <<LongText, Splice(SetAt(LongText, LongLen - LongLen \div 8, 98),
                              LongLen \div 8, 0, <<97, 98>>)>>}

InitMake ==
  /\ Diff_Timeout = 1
  /\ pc = "start"
  /\ \E pair \in MakePairs : A = pair[1] /\ B = pair[2]
  /\ opt_checklines = TRUE
  /\ script = << >>
  /\ patchSeq = << >>
  /\ applied = NoResult
  /\ target = << >>
  /\ outcome = NoCall

\* a text of one deletion that patch_splitMax lets pass in one chunk, more
\* than 2 * Match_MaxBits characters, between two contexts of Patch_Margin
\* characters; the text and what is left of it; the same with less
\* context before the deletion, with none, and with a deletion of
\* 2 * Match_MaxBits characters
MonsterText == [i \in 1..(2 * Match_MaxBits + 2 * Patch_Margin + 1) |-> 200 + i]
MonsterLeft == Substring(MonsterText, 0, Patch_Margin)
                 \o SubstringFrom(MonsterText, Len(MonsterText) - Patch_Margin)
SplitPairs ==
  MakePairs
    \cup {<<MonsterText, MonsterLeft>>,
          <<SubstringFrom(MonsterText, 1), SubstringFrom(MonsterLeft, 1)>>,
          <<SubstringFrom(MonsterText, Patch_Margin), SubstringFrom(MonsterLeft, Patch_Margin)>>,
          <<Splice(MonsterText, Patch_Margin, 1, << >>), MonsterLeft>>}

InitSplit ==
  /\ Diff_Timeout = 1
  /\ pc = "start"
  /\ \E pair \in SplitPairs : A = pair[1] /\ B = pair[2]
  /\ opt_checklines = TRUE
  /\ script = << >>
  /\ patchSeq = << >>
  /\ applied = NoResult
  /\ target = << >>
  /\ outcome = NoCall

\* n characters that no other text holds
Filler(n) == [i \in 1..n |-> 400 + i]

\* 20 more characters, and the same with one of them changed
MoreText == [i \in 1..20 |-> 300 + i]
MoreChanged == SetAt(MoreText, 15, 98)

\* the texts patches with a deletion passed in one chunk are made of, alone
\* and followed by a second patch, and short texts
RejectPairs ==
  (SeqsUpTo(Alphabet, 2) \X SeqsUpTo(Alphabet, 2))
    \cup {<<MonsterText, MonsterLeft>>,
          <<MonsterText \o MoreText, MonsterLeft \o MoreChanged>>,
          <<LongText, Splice(SetAt(LongText, LongLen - LongLen \div 8, 98),
                              LongLen \div 8, 1, << >>)>>}

\* the texts such patches are applied to: the text they were made of, the
\* same with 30 or 50 characters put in its middle or one at an end, its
\* second half, and short texts
Rewritten(text) ==
  {text, SubstringFrom(text, Len(text) \div 2),
   InsertAt(text, Len(text) \div 2, Filler(30)),
   InsertAt(text, Len(text) \div 2, Filler(50)),
   InsertAt(text, 0, <<120>>), InsertAt(text, Len(text), <<120>>)}
    \cup SeqsUpTo(Alphabet, 3)

InitReject ==
  /\ Diff_Timeout = 1
  /\ pc = "start"
  /\ \E pair \in RejectPairs : A = pair[1] /\ B = pair[2]
  /\ opt_checklines = TRUE
  /\ script = << >>
  /\ patchSeq = << >>
  /\ applied = NoResult
  /\ target = << >>
  /\ outcome = NoCall

\* n characters in a row from the one after code from
Run(from, n) == [i \in 1..n |-> from + i]

\* the changes an edit script has around an equality: a deletion, an
\* insertion, or both
Changes(c) ==
  {<< <<DIFF_DELETE, <<c>>>> >>, << <<DIFF_INSERT, <<c + 1>>>> >>,
   << <<DIFF_DELETE, <<c>>>>, <<DIFF_INSERT, <<c + 1>>>> >>}

\* an equality of n characters, none when n is 0
Equality(from, n) == IF n = 0 THEN << >> ELSE << <<DIFF_EQUAL, Run(from, n)>> >>

\* the longest equality between two changes
MaxGap == 3 * Patch_Margin

\* edit scripts with two changes and an equality of 1 to MaxGap characters
\* between them, with and without text before and after
GapScripts ==
  {Equality(500, lead) \o first \o Equality(600, gap) \o second
     \o Equality(700, trail) :
     lead \in {0, Patch_Margin - 1, 2 * Patch_Margin + 2},
     first \in Changes(120), gap \in 1..MaxGap, second \in Changes(130),
     trail \in {0, Patch_Margin - 1, 2 * Patch_Margin + 2}}

\* a caller holding an edit script to make patches of
InitGap ==
  /\ Diff_Timeout = 1
  /\ pc = "start"
  /\ script \in GapScripts
  /\ A = diff_text1(script)
  /\ B = diff_text2(script)
  /\ opt_checklines = TRUE
  /\ patchSeq = << >>
  /\ applied = NoResult
  /\ target = << >>
  /\ outcome = NoCall

\* "The quick brown fox" and "The quick red fox"
BrownFox == <<84, 104, 101, 32, 113, 117, 105, 99, 107, 32, 98, 114, 111, 119, 110, 32, 102, 111, 120>>
RedFox == <<84, 104, 101, 32, 113, 117, 105, 99, 107, 32, 114, 101, 100, 32, 102, 111, 120>>

\* the two sentences and parts of them
Sentences ==
  {BrownFox, RedFox, Substring(BrownFox, 10, 15), Substring(RedFox, 10, 13),
   Substring(BrownFox, 0, 10), SubstringFrom(BrownFox, 15), Substring(BrownFox, 4, 15), << >>}

InitSentences ==
  /\ Diff_Timeout \in {0, 1}
  /\ pc = "start"
  /\ A \in Sentences
  /\ B \in Sentences
  /\ opt_checklines = TRUE
  /\ script = << >>
  /\ patchSeq = << >>
  /\ applied = NoResult
  /\ target = << >>
  /\ outcome = NoCall

\* the deadlines a caller gives: so many clock reads, or none that matters
Deadlines == (0..MaxDeadline) \cup {MAX_VALUE}

\* short texts, "baaab", "brown" and "red"
TimedTexts ==
  Texts \cup {<<98, 97, 97, 97, 98>>, Substring(BrownFox, 10, 15), Substring(RedFox, 10, 13)}

InitDeadline ==
  /\ Diff_Timeout = 1
  /\ pc = "start"
  /\ A \in TimedTexts
  /\ B \in TimedTexts
  /\ opt_checklines = TRUE
  /\ script = << >>
  /\ patchSeq = << >>
  /\ applied = NoResult
  /\ target = << >>
  /\ outcome = NoCall

\* "abcdefghijk" and "fgh"
Letters == [i \in 1..11 |-> 96 + i]

\* a pattern of Match_MaxBits different characters, the same with one
\* character changed, and a pattern one character longer than Match_MaxBits
FullPattern == Substring(LongText, 0, Match_MaxBits)
NearPattern == SetAt(FullPattern, Match_MaxBits \div 2, 97)
OverPattern == Substring(LongText, 0, Match_MaxBits + 1)

\* the texts and patterns of a caller of match_main
MatchPairs ==
  (Texts \X Texts)
    \cup {<<Letters, Substring(Letters, 5, 8)>>,
          <<NearPattern \o FullPattern, FullPattern>>,
          <<Substring(FullPattern, 0, Match_MaxBits - 1) \o FullPattern, FullPattern>>,
          <<OverPattern, OverPattern>>,
          << << >>, OverPattern>>,
          <<LongText, OverPattern>>,
          <<SubstringFrom(LongText, 3), OverPattern>>}

InitMatch ==
  /\ Diff_Timeout = 1
  /\ pc = "start"
  /\ \E pair \in MatchPairs : A = pair[1] /\ B = pair[2]
  /\ opt_checklines = TRUE
  /\ script = << >>
  /\ patchSeq = << >>
  /\ applied = NoResult
  /\ target = << >>
  /\ outcome = NoCall

\* "null" and "nul"
NullWord == <<110, 117, 108, 108>>
CallTexts == Nullish \cup SeqsUpTo(Alphabet, 2) \cup {NullWord, Substring(NullWord, 0, 3)}

\* the locations a caller passes with a text
Locs(text) == -1..(Len(text) + 1)

\* "", "=1", "-1", "+a" and "=4"
BroughtDeltas == {<< >>, <<61, 49>>, <<45, 49>>, <<43, 97>>, <<61, 52>>}

\* a caller whose texts are strings, null or undefined
InitCall ==
  /\ Diff_Timeout = 1
  /\ pc = "start"
  /\ A \in CallTexts
  /\ B \in CallTexts
  /\ opt_checklines \in BOOLEAN
  /\ script = << >>
  /\ patchSeq = << >>
  /\ applied = NoResult
  /\ target = << >>
  /\ outcome = NoCall

\* no two adjacent edits of the same kind and no edit with empty text
Normal(diffs0) ==
  /\ \A i \in 1..Len(diffs0) : Text(diffs0[i]) # << >>
  /\ \A i \in 1..(Len(diffs0) - 1) : Op(diffs0[i]) # Op(diffs0[i + 1])

\* edits of one character, and edits of up to MaxEditLen + 1 characters
ShortEdits ==
  {Diff(op, <<c>>) : op \in {DIFF_DELETE, DIFF_INSERT, DIFF_EQUAL}, c \in Alphabet}
WideEdits ==
  {Diff(op, text) : op \in {DIFF_DELETE, DIFF_INSERT, DIFF_EQUAL},
                    text \in SeqsUpTo(Alphabet, MaxEditLen + 1)}

\* the normalized edit scripts: up to MaxEdits edits of one character, and
\* up to three longer edits
NormalScripts ==
  {diffs0 \in SeqsUpTo(ShortEdits, MaxEdits) : Normal(diffs0)}
    \cup {diffs0 \in SeqsUpTo(WideEdits, 3) : Normal(diffs0)}

\* a caller holding a normalized edit script, of A and B
InitCleanup ==
  /\ Diff_Timeout = 1
  /\ pc = "raw"
  /\ script \in NormalScripts
  /\ A = diff_text1(script)
  /\ B = diff_text2(script)
  /\ opt_checklines = TRUE
  /\ patchSeq = << >>
  /\ applied = NoResult
  /\ target = << >>
  /\ outcome = NoCall

\* the date parameters of the requests: none, days of January 1970, dates
\* with a field out of range, numbers of milliseconds, and other strings
DateParams ==
  {undefined,
   <<49, 57, 55, 48, 45, 48, 49, 45, 48, 49>>,  \* "1970-01-01"
   <<49, 57, 55, 48, 45, 48, 49, 45, 48, 50>>,  \* "1970-01-02"
   <<49, 57, 55, 48, 45, 48, 49, 45, 48, 51>>,  \* "1970-01-03"
   <<49, 57, 55, 48, 45, 48, 49, 45, 48, 53>>,  \* "1970-01-05"
   <<49, 57, 55, 48, 45, 48, 49, 45, 48, 56>>,  \* "1970-01-08"
   <<49, 57, 55, 48, 45, 48, 49, 45, 49, 51>>,  \* "1970-01-13"
   <<49, 57, 55, 48, 45, 48, 49, 45, 50, 48>>,  \* "1970-01-20"
   <<49, 57, 55, 48, 45, 48, 49, 45, 51, 50>>,  \* "1970-01-32"
   <<49, 57, 55, 48, 45, 49, 51, 45, 48, 49>>,  \* "1970-13-01"
   <<49, 57, 55, 48, 45, 48, 48, 45, 49, 48>>,  \* "1970-00-10"
   <<49, 57, 55, 48>>,  \* "1970"
   <<49, 57, 55, 48, 45, 48, 49>>,  \* "1970-01"
   <<49, 57, 55, 48, 45>>,  \* "1970-"
   <<56, 54, 52, 48, 48, 48, 48, 48>>,  \* "86400000"
   <<48, 48, 48, 48, 48, 56, 54, 52, 48, 48, 48, 48, 48>>,  \* "0000086400000"
   <<49, 50, 51, 52, 53>>,  \* "12345"
   <<49, 50, 51>>,  \* "123"
   <<45, 53>>,  \* "-5"
   <<53, 45>>,  \* "5-"
   <<97, 122, 97>>,  \* "aza"
   <<49, 57, 55, 48, 45, 48, 49, 45, 49, 97>>,  \* "1970-01-1a"
   <<48>>}  \* "0"

\* the time new Date() reads, the result of Date.parse on a string whose
\* parsing is left to the implementation, and the time zones of the server
Nows == {0, MsPerDay + 1000}
ImplParsed == {NaN, Number(0), Number(MsPerDay)}
Zones == {-5 * 3600000, 0, 5 * 3600000}

\* a request with date parameter target has arrived
InitRoutes ==
  /\ Diff_Timeout = 1
  /\ pc = "request"
  /\ A = << >>
  /\ B = << >>
  /\ opt_checklines = TRUE
  /\ script = << >>
  /\ patchSeq = << >>
  /\ applied = NoResult
  /\ target \in DateParams
  /\ outcome = NoCall

\* a caller holding an edit script
InitMerge ==
  /\ Diff_Timeout = 1
  /\ pc = "raw"
  /\ A = << >>
  /\ B = << >>
  /\ opt_checklines = TRUE
  /\ script \in RawScripts
  /\ patchSeq = << >>
  /\ applied = NoResult
  /\ target = << >>
  /\ outcome = NoCall

\* script = dmp.diff_main(A, B, checklines)
DiffMain ==
  /\ pc = "start"
  /\ \E checklines \in BOOLEAN, reads \in Clocks :
       /\ opt_checklines' = checklines
       /\ script' = diff_main(A, B, checklines, NewDeadline(reads)).diffs
  /\ pc' = "diff_main"
  /\ UNCHANGED <<Diff_Timeout, A, B, patchSeq, applied, target, outcome>>

\* patchSeq = dmp.patch_make(A, B)
PatchMake ==
  /\ pc = "start"
  /\ \E reads \in Clocks :
       LET Made(made) == /\ ~made.raised
                         /\ patchSeq' = made.value
       IN Made(patch_make(A, B, reads))
  /\ pc' = "patch_make"
  /\ UNCHANGED <<Diff_Timeout, A, B, opt_checklines, script, applied, target, outcome>>

\* applied = dmp.patch_apply(patchSeq, target): the patches are objects of
\* the heap, and what the caller holds afterwards is what the heap then holds
PatchApply ==
  /\ pc = "patch_make"
  /\ \E text \in Targets(A), reads \in Clocks :
       LET loaded == Store(EmptyHeap, patchSeq, 0)
           Applied(r) ==
             /\ target' = text
             /\ applied' = [text |-> r.text, results |-> r.results,
                            raised |-> r.raised, work |-> r.work,
                            start_locs |-> r.start_locs]
             /\ patchSeq' = PatchesOf(r.heap, loaded.patches)
       IN Applied(patch_apply(loaded.heap, loaded.patches, text, reads))
  /\ pc' = "patch_apply"
  /\ UNCHANGED <<Diff_Timeout, A, B, opt_checklines, script, outcome>>

\* dmp.diff_cleanupMerge(script), on a script the caller brought and then
\* once more on what the first call left
CleanupMerge ==
  /\ pc \in {"raw", "merged"}
  /\ script' = diff_cleanupMerge(script)
  /\ pc' = IF pc = "raw" THEN "merged" ELSE "merged_again"
  /\ UNCHANGED <<Diff_Timeout, A, B, opt_checklines, patchSeq, applied, target, outcome>>

\* dmp.diff_cleanupSemantic(script)
CleanupSemantic ==
  /\ pc = "raw"
  /\ script' = diff_cleanupSemantic(script)
  /\ pc' = "diff_cleanupSemantic"
  /\ UNCHANGED <<Diff_Timeout, A, B, opt_checklines, patchSeq, applied, target, outcome>>

\* dmp.diff_cleanupSemanticLossless(script)
CleanupSemanticLossless ==
  /\ pc = "raw"
  /\ script' = diff_cleanupSemanticLossless(script)
  /\ pc' = "diff_cleanupSemanticLossless"
  /\ UNCHANGED <<Diff_Timeout, A, B, opt_checklines, patchSeq, applied, target, outcome>>

\* dmp.diff_cleanupEfficiency(script)
CleanupEfficiency ==
  /\ pc = "raw"
  /\ script' = diff_cleanupEfficiency(script)
  /\ pc' = "diff_cleanupEfficiency"
  /\ UNCHANGED <<Diff_Timeout, A, B, opt_checklines, patchSeq, applied, target, outcome>>

\* outcome = dmp.diff_toDelta(script), on the script of diff_main
ToDelta ==
  /\ pc = "diff_main"
  /\ outcome' = diff_toDelta(script)
  /\ pc' = "diff_toDelta"
  /\ UNCHANGED <<Diff_Timeout, A, B, opt_checklines, script, patchSeq, applied, target>>

\* outcome = dmp.diff_fromDelta(text1, delta), on the delta diff_toDelta
\* returned and a text: A, B, both, or A without its first character
FromDelta ==
  /\ pc = "diff_toDelta"
  /\ ~outcome.raised
  /\ \E text1 \in {A, B, A \o B, SubstringFrom(A, 1)} :
       /\ target' = text1
       /\ outcome' = diff_fromDelta(text1, outcome.value)
  /\ pc' = "diff_fromDelta"
  /\ UNCHANGED <<Diff_Timeout, A, B, opt_checklines, script, patchSeq, applied>>

\* outcome = dmp.diff_main(A, B, opt_checklines), by a caller whose texts
\* may be null or undefined: lines 1981-1991, then the diff
CallDiffMain ==
  /\ pc = "start"
  /\ \E reads \in Clocks :
       outcome' = IF A \in Nullish \/ B \in Nullish THEN Thrown
                  ELSE Returned(diff_main(A, B, opt_checklines, NewDeadline(reads)).diffs)
  /\ pc' = "diff_main_call"
  /\ UNCHANGED <<Diff_Timeout, A, B, opt_checklines, script, patchSeq, applied, target>>

\* outcome = dmp.match_main(A, B, loc), the location kept beside it: lines
\* 2814-2816, then the match
CallMatchMain ==
  /\ pc = "start"
  /\ \E loc \in Locs(A) :
       LET Matched(r) ==
             outcome' = [raised |-> r.raised, value |-> r.value, loc |-> loc]
       IN Matched(IF A \in Nullish \/ B \in Nullish THEN Thrown
                  ELSE match_main(A, B, loc))
  /\ pc' = "match_main_call"
  /\ UNCHANGED <<Diff_Timeout, A, B, opt_checklines, script, patchSeq, applied, target>>

\* patchSeq = dmp.patch_make(A, B), when it returns: lines 2938-2967 take
\* two strings, and any other pair of a string, null or undefined is an
\* unknown call format
CallPatchMake ==
  /\ pc = "start"
  /\ \E reads \in Clocks :
       LET Made(made) ==
             /\ outcome' = made
             /\ patchSeq' = IF made.raised THEN patchSeq ELSE made.value
       IN Made(IF A \in Nullish \/ B \in Nullish THEN Thrown
               ELSE patch_make(A, B, reads))
  /\ pc' = "patch_make_call"
  /\ UNCHANGED <<Diff_Timeout, A, B, opt_checklines, script, applied, target>>

\* outcome = dmp.patch_apply(patchSeq, text), on A, null or undefined: line
\* 3045 returns text as it is, line 3049 concatenates it with the padding,
\* which makes a string of it
CallPatchApply ==
  /\ pc = "patch_make_call"
  /\ ~outcome.raised
  /\ \E text \in Nullish \cup {A}, reads \in Clocks :
       LET loaded == Store(EmptyHeap, patchSeq, 0)
           Applied(r) ==
             /\ target' = text
             /\ outcome' = [raised |-> r.raised,
                            value |-> [text |-> r.text, results |-> r.results]]
             /\ patchSeq' = PatchesOf(r.heap, loaded.patches)
       IN Applied(patch_apply(loaded.heap, loaded.patches,
                              IF Len(patchSeq) = 0 THEN text ELSE ToText(text),
                              reads))
  /\ pc' = "patch_apply_call"
  /\ UNCHANGED <<Diff_Timeout, A, B, opt_checklines, script, applied>>

\* outcome = dmp.diff_fromDelta(A, delta), on a delta the caller brought:
\* text1.substring (line 2795) and text1.length (line 2808) throw TypeError
\* on null and undefined, and one of them is reached unless an earlier token
\* throws
CallFromDelta ==
  /\ pc = "start"
  /\ \E delta \in BroughtDeltas :
       /\ target' = delta
       /\ outcome' = IF A \in Nullish THEN Thrown ELSE diff_fromDelta(A, delta)
  /\ pc' = "diff_fromDelta_call"
  /\ UNCHANGED <<Diff_Timeout, A, B, opt_checklines, script, patchSeq, applied>>

\* script = dmp.diff_main(A, B, checklines, opt_deadline), by a caller who
\* gives the deadline (line 1988); the deadline given and the clock reads
\* left at the return are kept beside the script
DiffMainBy ==
  /\ pc = "start"
  /\ \E checklines \in BOOLEAN, opt_deadline \in Deadlines :
       LET Done(r) ==
             /\ script' = r.diffs
             /\ outcome' = [raised |-> FALSE, value |-> r.diffs,
                            deadline |-> opt_deadline, left |-> r.deadline]
       IN /\ opt_checklines' = checklines
          /\ Done(diff_main(A, B, checklines, opt_deadline))
  /\ pc' = "diff_main_by"
  /\ UNCHANGED <<Diff_Timeout, A, B, patchSeq, applied, target>>

\* dmp.patch_addPadding(patchSeq): the caller's patches are padded in place
AddPadding ==
  /\ pc = "patch_make"
  /\ Len(patchSeq) > 0
  /\ LET loaded == Store(EmptyHeap, patchSeq, 0)
         Padded(r) == patchSeq' = PatchesOf(r.heap, r.patches)
     IN Padded(patch_addPadding([heap |-> loaded.heap, patches |-> loaded.patches]))
  /\ pc' = "patch_addPadding"
  /\ UNCHANGED <<Diff_Timeout, A, B, opt_checklines, script, applied, target, outcome>>

\* dmp.patch_splitMax(patchSeq): the caller's patches are split in place
SplitMax ==
  /\ pc \in {"patch_make", "patch_addPadding"}
  /\ LET loaded == Store(EmptyHeap, patchSeq, 0)
         Split(r) == patchSeq' = PatchesOf(r.heap, r.patches)
     IN Split(patch_splitMax([heap |-> loaded.heap, patches |-> loaded.patches]))
  /\ pc' = "patch_splitMax"
  /\ UNCHANGED <<Diff_Timeout, A, B, opt_checklines, script, applied, target, outcome>>

\* outcome = dmp.patch_apply(patchSeq, text), what every turn of its loop
\* left kept beside it
ApplyRewritten ==
  /\ pc = "patch_make"
  /\ \E text \in Rewritten(A), reads \in Clocks :
       LET loaded == Store(EmptyHeap, patchSeq, 0)
           Applied(r) ==
             /\ target' = text
             /\ outcome' = [raised |-> r.raised,
                            value |-> [text |-> r.text, results |-> r.results],
                            start_locs |-> r.start_locs, turns |-> r.turns]
             /\ patchSeq' = PatchesOf(r.heap, loaded.patches)
       IN Applied(patch_apply(loaded.heap, loaded.patches, text, reads))
  /\ pc' = "patch_apply_turns"
  /\ UNCHANGED <<Diff_Timeout, A, B, opt_checklines, script, applied>>

\* outcome = dmp.diff_commonPrefix(A, B)
CommonPrefix ==
  /\ pc = "start"
  /\ outcome' = Returned(diff_commonPrefix(A, B))
  /\ pc' = "diff_commonPrefix"
  /\ UNCHANGED <<Diff_Timeout, A, B, opt_checklines, script, patchSeq, applied, target>>

\* outcome = dmp.diff_commonSuffix(A, B)
CommonSuffix ==
  /\ pc = "start"
  /\ outcome' = Returned(diff_commonSuffix(A, B))
  /\ pc' = "diff_commonSuffix"
  /\ UNCHANGED <<Diff_Timeout, A, B, opt_checklines, script, patchSeq, applied, target>>

\* outcome = dmp.diff_halfMatch_(A, B)
HalfMatch ==
  /\ pc = "start"
  /\ outcome' = Returned(diff_halfMatch_(A, B))
  /\ pc' = "diff_halfMatch_"
  /\ UNCHANGED <<Diff_Timeout, A, B, opt_checklines, script, patchSeq, applied, target>>

\* the deadlines a caller hands to diff_main: passed at once, after a few
\* clock reads, or later than the call lasts
SplitDeadlines == (0..MaxDeadline) \cup {ManyReads}

\* script = dmp.diff_main(A, B, opt_checklines, opt_deadline); texts are the
\* texts this call hands to diff_bisect_ and point what diff_bisect_ finds
\* for them: with point.found it calls diff_bisectSplit_ at point.x, point.y
DiffMainSplit ==
  /\ pc = "start"
  /\ \E opt_deadline \in SplitDeadlines :
       LET Point(texts) ==
             IF texts = Null THEN Null
             ELSE BisectOverlap(texts[1], texts[2], opt_deadline)
           Done(r, texts) ==
             /\ script' = r.diffs
             /\ outcome' = [raised |-> FALSE, value |-> r.diffs,
                            texts |-> texts, point |-> Point(texts)]
       IN Done(diff_main(A, B, opt_checklines, opt_deadline),
               BisectTexts(A, B, opt_checklines))
  /\ pc' = "diff_bisect_"
  /\ UNCHANGED <<Diff_Timeout, A, B, opt_checklines, patchSeq, applied, target>>

\* the handlers of the four routes on the request: outcome is the response
\* object when the handler ends
Responded(res) ==
  outcome' = [raised |-> res.raised, value |-> res.sent, calls |-> res.calls]

GetTimestampDateString ==
  /\ pc = "request"
  /\ \E impl \in ImplParsed : Responded(timestamp_date_string(target, impl))
  /\ pc' = "script.js"
  /\ UNCHANGED <<Diff_Timeout, A, B, opt_checklines, script, patchSeq, applied, target>>

GetApiDate ==
  /\ pc = "request"
  /\ \E now \in Nows, impl \in ImplParsed : Responded(app_api_date(target, now, impl))
  /\ pc' = "app.js"
  /\ UNCHANGED <<Diff_Timeout, A, B, opt_checklines, script, patchSeq, applied, target>>

GetRouterDate ==
  /\ pc = "request"
  /\ \E now \in Nows, impl \in ImplParsed : Responded(router_date(target, now, impl))
  /\ pc' = "routes/api.js"
  /\ UNCHANGED <<Diff_Timeout, A, B, opt_checklines, script, patchSeq, applied, target>>

GetIndexApiDate ==
  /\ pc = "request"
  /\ \E now \in Nows, impl \in ImplParsed, tz \in Zones :
       Responded(index_api_date(target, now, impl, tz))
  /\ pc' = "index.js"
  /\ UNCHANGED <<Diff_Timeout, A, B, opt_checklines, script, patchSeq, applied, target>>

\* patchSeq = dmp.patch_make(script): text1 is the source text of the script
PatchMakeDiffs ==
  /\ pc = "start"
  /\ LET Made(made) == /\ ~made.raised
                       /\ patchSeq' = made.value
     IN Made(MakePatches(diff_text1(script), script))
  /\ pc' = "patch_make_diffs"
  /\ UNCHANGED <<Diff_Timeout, A, B, opt_checklines, script, applied, target, outcome>>

Next == DiffMain

Spec == Init /\ [][Next]_vars

NextCall ==
  CallDiffMain \/ CallMatchMain \/ CallPatchMake \/ CallPatchApply \/ CallFromDelta

SpecCall == InitCall /\ [][NextCall]_vars

NextMatch == CallMatchMain

SpecMatch == InitMatch /\ [][NextMatch]_vars

SpecSentences == InitSentences /\ [][Next]_vars

NextDeadline == DiffMainBy

SpecDeadline == InitDeadline /\ [][NextDeadline]_vars

NextMake == PatchMake

SpecMake == InitMake /\ [][NextMake]_vars

NextSplit == PatchMake \/ SplitMax

SpecSplit == InitSplit /\ [][NextSplit]_vars

NextPure == CommonPrefix \/ CommonSuffix \/ HalfMatch

SpecPure == Init /\ [][NextPure]_vars

NextBisect == DiffMainSplit

SpecBisect == Init /\ [][NextBisect]_vars

NextCleanup ==
  CleanupMerge \/ CleanupSemantic \/ CleanupSemanticLossless \/ CleanupEfficiency

SpecCleanup == InitCleanup /\ [][NextCleanup]_vars

NextShape == PatchMake \/ AddPadding \/ SplitMax

SpecShape == InitSplit /\ [][NextShape]_vars

NextRoutes ==
  GetTimestampDateString \/ GetApiDate \/ GetRouterDate \/ GetIndexApiDate

SpecRoutes == InitRoutes /\ [][NextRoutes]_vars

NextGap == PatchMakeDiffs

SpecGap == InitGap /\ [][NextGap]_vars

NextReject == PatchMake \/ ApplyRewritten

SpecReject == InitReject /\ [][NextReject]_vars

NextPatch == PatchMake \/ PatchApply

SpecPatch == InitPatch /\ [][NextPatch]_vars

NextMerge == CleanupMerge

NextDelta == DiffMain \/ ToDelta \/ FromDelta

SpecDelta == InitDelta /\ [][NextDelta]_vars

SpecMerge == InitMerge /\ [][NextMerge]_vars

\* ------------------------------------------------------------------------
\* Properties
\* ------------------------------------------------------------------------
\* an edit of the given kind occurs in the script
Has(diffs0, op) == \E i \in 1..Len(diffs0) : Op(diffs0[i]) = op

C2_OldTextRebuilt == pc = "diff_main" => diff_text1(script) = A

C2_Witness ==
  /\ pc = "diff_main"
  /\ opt_checklines
  /\ Len(script) >= 4
  /\ Has(script, DIFF_DELETE)
  /\ diff_text1(script) = A

\* C3: patch_apply(patch_make(A, B), A) returns B and only true flags.
C3_AppliedToSource ==
  pc = "patch_apply" /\ target = A
    => /\ applied.text = B
       /\ \A i \in 1..Len(applied.results) : applied.results[i]

C3_Witness ==
  /\ pc = "patch_apply"
  /\ target = A
  /\ A # B
  /\ Len(patchSeq) >= 2
  /\ applied.text = B

\* C4: patch_apply leaves every patch of the sequence it was given as it
\* was: same diffs, start1, start2, length1 and length2.
C4_PatchesKept ==
  [][pc = "patch_make" /\ pc' = "patch_apply" => patchSeq' = patchSeq]_vars

\* the call split a long patch of its copy, and a patch failed
C4_Witness ==
  /\ pc = "patch_apply"
  /\ patchSeq # << >>
  /\ applied.work > Len(patchSeq)
  /\ \E i \in 1..Len(applied.results) : ~applied.results[i]

\* C5: patch_apply on patches of patch_make and any text throws nothing; a
\* patch that is not located gets the flag false, and the loop goes on to
\* every later patch.
C5_NoErrorAllAttempted ==
  pc = "patch_apply"
    => /\ ~applied.raised
       /\ Len(applied.results) = applied.work
       /\ Len(applied.start_locs) = applied.work
       /\ \A i \in 1..Len(applied.start_locs) :
            applied.start_locs[i] = -1 => ~applied.results[i]

\* a patch was not located and a later patch was
C5_Witness ==
  /\ pc = "patch_apply"
  /\ ~applied.raised
  /\ \E i \in 1..Len(applied.start_locs) :
       /\ applied.start_locs[i] = -1
       /\ \E j \in (i + 1)..Len(applied.start_locs) :
            applied.start_locs[j] # -1 /\ applied.results[j]

\* C6: the success vector of patch_apply has one flag per patch of the
\* sequence it was given.
C6_OneFlagPerPatch ==
  pc = "patch_apply" => Len(applied.results) = Len(patchSeq)

\* the target is A with extra inserted at p, and p lies in no patch's span
InsertedOutside(p, extra) ==
  /\ target = InsertAt(A, p, extra)
  /\ \A i \in 1..Len(patchSeq) :
       \/ p <= patchSeq[i].start1
       \/ p >= patchSeq[i].start1 + patchSeq[i].length1

\* C7: on A with extra text inserted outside the span of every patch,
\* patch_apply(patch_make(A, B), .) returns only true flags and B with the
\* same extra text inserted.
C7_InsertionOutsideSpans ==
  pc = "patch_apply"
    => \A p \in 0..Len(A), extra \in Extras :
         InsertedOutside(p, extra)
           => /\ \A i \in 1..Len(applied.results) : applied.results[i]
              /\ \E q \in 0..Len(B) : applied.text = InsertAt(B, q, extra)

\* C8: the script of diff_main(A, B) has no two adjacent edits of the same
\* kind and no edit with empty text, and is empty only if A and B are empty.
C8_ScriptNormal ==
  pc = "diff_main"
    => /\ Normal(script)
       /\ script = << >> => A = << >> /\ B = << >>

C8_Witness ==
  /\ pc = "diff_main"
  /\ Len(script) >= 5
  /\ Normal(script)

\* C9: after diff_cleanupMerge on any script, the script has no two
\* adjacent edits of the same kind and no edit with empty text.
C9_MergedNormal == pc = "merged" => Normal(script)

\* C10: diff_cleanupMerge on a script that diff_cleanupMerge returned leaves
\* it as it is.
C10_MergeIdempotent == [][pc = "merged" => script' = script]_vars

\* C11: diff_toDelta of the script of diff_main(A, B) returns a delta, and
\* diff_fromDelta(A, delta) returns that script, edit for edit.
C11_DeltaRoundTrip ==
  /\ pc = "diff_toDelta" => ~outcome.raised
  /\ pc = "diff_fromDelta" /\ target = A
       => ~outcome.raised /\ outcome.value = script

\* C12: diff_fromDelta(text1, delta) throws if the lengths of the "-" and
\* "=" tokens of delta do not add up to the length of text1, and returns a
\* script if they do.
C12_DeltaLengthChecked ==
  pc = "diff_fromDelta"
    => (outcome.raised <=> Len(diff_text1(script)) # Len(target))

\* the call threw on a text that is too short, or too long, for the delta
C12_Witness ==
  /\ pc = "diff_fromDelta"
  /\ outcome.raised
  /\ Len(target) > Len(diff_text1(script))
  /\ Len(script) >= 3

\* C13: each public operation that takes a text (diff_main, match_main,
\* patch_make, patch_apply, diff_fromDelta) raises an error when that text is
\* null or undefined, and returns no result made of the text as a string.
C13_NullTextRaises ==
  /\ pc \in {"diff_main_call", "match_main_call", "patch_make_call"}
       /\ (A \in Nullish \/ B \in Nullish) => outcome.raised
  /\ pc = "diff_fromDelta_call" /\ A \in Nullish => outcome.raised
  /\ pc = "patch_apply_call" /\ target \in Nullish => outcome.raised

\* the operations other than patch_apply raise on a null or undefined text
C13_OthersRaise ==
  /\ pc \in {"diff_main_call", "match_main_call", "patch_make_call"}
       /\ (A \in Nullish \/ B \in Nullish) => outcome.raised
  /\ pc = "diff_fromDelta_call" /\ A \in Nullish => outcome.raised

\* patch_apply turned null into the text "null" and patched it to "nul"
C13_Coerced ==
  /\ pc = "patch_apply_call"
  /\ target = <<-1>>
  /\ ~outcome.raised
  /\ outcome.value.text = Substring(NullWord, 0, 3)
  /\ outcome.value.results = <<TRUE>>

\* the location match_main works with: loc within the text
ClampedLoc == Max(0, Min(outcome.loc, Len(A)))

\* pattern B stands in text A at position p
OccursAt(p) == p >= 0 /\ p + Len(B) <= Len(A) /\ Substring(A, p, p + Len(B)) = B

\* match_main answers without the bitap search
Shortcut == A = B \/ Len(A) = 0 \/ OccursAt(ClampedLoc)

\* C14 as stated: match_main raises an error for every call whose pattern is
\* longer than Match_MaxBits, whatever the text and loc.
C14_LongPatternRaises ==
  pc = "match_main_call" /\ Len(B) > Match_MaxBits => outcome.raised

\* C14, amended: a call whose pattern is longer than Match_MaxBits raises
\* an error unless the text equals the pattern, the text is empty or the
\* pattern stands in the text at loc; then it returns 0, -1 or loc.
C14_LongPatternRaisesInSearch ==
  pc = "match_main_call" /\ Len(B) > Match_MaxBits =>
    /\ outcome.raised <=> ~Shortcut
    /\ ~outcome.raised =>
         outcome.value = (IF A = B THEN 0 ELSE IF Len(A) = 0 THEN -1 ELSE ClampedLoc)

\* a long pattern that stands in the text, but not at loc: the call raised
C14_Witness ==
  /\ pc = "match_main_call"
  /\ Len(B) > Match_MaxBits
  /\ OccursAt(0)
  /\ ClampedLoc = 5
  /\ outcome.raised

\* C15 as stated: when the pattern (at most Match_MaxBits long) stands in the
\* text at a position p with |p - loc| / Match_Distance <= Match_Threshold,
\* match_main returns a position where the text holds the pattern; and
\* match_main("abcdefghijk", "fgh", 0) is 5.
C15_ExactFound ==
  pc = "match_main_call" =>
    /\ Len(B) <= Match_MaxBits
         /\ (\E p \in 0..Len(A) :
               OccursAt(p) /\ HalfDen * Abs(p - ClampedLoc) <= Match_Distance)
         => ~outcome.raised /\ OccursAt(outcome.value)
    /\ A = Letters /\ B = Substring(Letters, 5, 8) /\ outcome.loc = 0
         => ~outcome.raised /\ outcome.value = 5

\* C15, amended: the same when moreover |p - loc| / Match_Distance is less
\* than 1 / length of the pattern, what one error costs.
C15_ExactFoundWhenNearer ==
  pc = "match_main_call" =>
    /\ Len(B) <= Match_MaxBits
         /\ (\E p \in 0..Len(A) :
               /\ OccursAt(p)
               /\ HalfDen * Abs(p - ClampedLoc) <= Match_Distance
               /\ Abs(p - ClampedLoc) * Len(B) < Match_Distance)
         => ~outcome.raised /\ OccursAt(outcome.value)
    /\ A = Letters /\ B = Substring(Letters, 5, 8) /\ outcome.loc = 0
         => ~outcome.raised /\ outcome.value = 5

\* the search found a full pattern 31 places after loc, where a place with
\* one error is at loc
C15_Witness ==
  /\ pc = "match_main_call"
  /\ Len(B) = Match_MaxBits
  /\ outcome.loc = 0
  /\ ~outcome.raised
  /\ outcome.value = Match_MaxBits - 1
  /\ OccursAt(outcome.value)

\* EQUAL "The quick ", DELETE "brown", INSERT "red", EQUAL " fox"
FourEdits ==
  <<Diff(DIFF_EQUAL, Substring(BrownFox, 0, 10)),
    Diff(DIFF_DELETE, Substring(BrownFox, 10, 15)),
    Diff(DIFF_INSERT, Substring(RedFox, 10, 13)),
    Diff(DIFF_EQUAL, SubstringFrom(BrownFox, 15))>>

\* EQUAL "The quick ", DELETE "b", EQUAL "r", DELETE "own", INSERT "ed",
\* EQUAL " fox"
SixEdits ==
  <<Diff(DIFF_EQUAL, Substring(BrownFox, 0, 10)),
    Diff(DIFF_DELETE, Substring(BrownFox, 10, 11)),
    Diff(DIFF_EQUAL, Substring(BrownFox, 11, 12)),
    Diff(DIFF_DELETE, Substring(BrownFox, 12, 15)),
    Diff(DIFF_INSERT, Substring(RedFox, 11, 13)),
    Diff(DIFF_EQUAL, SubstringFrom(BrownFox, 15))>>

\* C16 as stated: diff_main("The quick brown fox", "The quick red fox")
\* returns exactly the four edits EQUAL "The quick ", DELETE "brown",
\* INSERT "red", EQUAL " fox", in that order.
C16_FourEdits ==
  pc = "diff_main" /\ A = BrownFox /\ B = RedFox => script = FourEdits

\* C16, amended: it returns the six edits EQUAL "The quick ", DELETE "b",
\* EQUAL "r", DELETE "own", INSERT "ed", EQUAL " fox", or the four edits when
\* the deadline has passed, never the four when there is no time limit; and
\* diff_cleanupSemantic makes the four edits of what it returns.
C16_SixEdits ==
  pc = "diff_main" /\ A = BrownFox /\ B = RedFox =>
    /\ script \in {SixEdits, FourEdits}
    /\ Diff_Timeout = 0 => script = SixEdits
    /\ diff_cleanupSemantic(script) = FourEdits

\* the call returned the six edits under the default time limit
C16_Witness ==
  /\ pc = "diff_main"
  /\ A = BrownFox
  /\ B = RedFox
  /\ Diff_Timeout = 1
  /\ script = SixEdits

\* the clock reads diff_main(A, B) makes when no deadline stops it
ReadsNeeded == MAX_VALUE - diff_main(A, B, opt_checklines, MAX_VALUE).deadline

\* a clock read of the call found the deadline passed
DeadlinePassed == ReadsNeeded > outcome.deadline

\* C17: whenever the deadline passes during diff_main (at the first
\* iteration of a bisection or at a later one, in any recursive call), the
\* call returns a script, and the script rebuilds text1 from the edits that
\* are not insertions and text2 from those that are not deletions.
C17_TimeoutStillRebuilds ==
  pc = "diff_main_by" /\ DeadlinePassed =>
    /\ ~outcome.raised
    /\ diff_text1(script) = A
    /\ diff_text2(script) = B

\* the deadline passed in a recursive call, after a first bisection had
\* split the texts: the script has an equality and is not the shortest
C17_Witness ==
  /\ pc = "diff_main_by"
  /\ DeadlinePassed
  /\ outcome.deadline >= 1
  /\ diff_commonPrefix(A, B) = 0
  /\ diff_commonSuffix(A, B) = 0
  /\ Has(script, DIFF_EQUAL)
  /\ script # diff_main(A, B, opt_checklines, MAX_VALUE).diffs
  /\ diff_text1(script) = A
  /\ diff_text2(script) = B

\* the length of the longest common subsequence of a and b
LCS(a, b) ==
  LET lcs[i \in 0..Len(a), j \in 0..Len(b)] ==
        IF i = 0 \/ j = 0 THEN 0
        ELSE IF a[i] = b[j] THEN lcs[i - 1, j - 1] + 1
        ELSE Max(lcs[i - 1, j], lcs[i, j - 1])
  IN lcs[Len(a), Len(b)]

\* the characters the script inserts and deletes
RECURSIVE ChangedLength(_)
ChangedLength(diffs) ==
  IF diffs = << >> THEN 0
  ELSE (IF diffs[1][1] = DIFF_EQUAL THEN 0 ELSE Len(diffs[1][2]))
         + ChangedLength(Tail(diffs))

\* C18: with Diff_Timeout <= 0 and checklines false, diff_halfMatch_ returns
\* null, the bisection is not stopped by the deadline (clock reads are left
\* when the call returns), and diff_main(A, B) is a shortest edit script:
\* its insertions and deletions have |A| + |B| - 2 * LCS(A, B) characters.
C18_NoTimeoutShortest ==
  pc = "diff_main" /\ Diff_Timeout <= 0 /\ ~opt_checklines =>
    /\ diff_halfMatch_(A, B) = Null
    /\ diff_halfMatch_(B, A) = Null
    /\ ~Expired(diff_main(A, B, FALSE, NewDeadline(0)).deadline)
    /\ script = diff_main(A, B, FALSE, MAX_VALUE).diffs
    /\ ChangedLength(script) = Len(A) + Len(B) - 2 * LCS(A, B)

\* a call without time limit on texts long enough for a half match, whose
\* script keeps, deletes and inserts
C18_Witness ==
  /\ pc = "diff_main"
  /\ Diff_Timeout = 0
  /\ ~opt_checklines
  /\ Len(A) >= 4
  /\ Len(B) * 2 >= Len(A)
  /\ Has(script, DIFF_EQUAL)
  /\ Has(script, DIFF_DELETE)
  /\ Has(script, DIFF_INSERT)
  /\ LCS(A, B) >= 2
  /\ ChangedLength(script) = Len(A) + Len(B) - 2 * LCS(A, B)

\* the span of text that patch p names by start1 and length1
SpanOf(text, p) == Substring(text, p.start1, p.start1 + p.length1)

\* text with the span of patch p replaced by what p makes of it
RolledOver(text, p) ==
  Substring(text, 0, p.start1) \o diff_text2(p.diffs)
    \o SubstringFrom(text, p.start1 + p.length1)

\* A after the first n patches of patchSeq
RECURSIVE Rolled(_)
Rolled(n) == IF n = 0 THEN A ELSE RolledOver(Rolled(n - 1), patchSeq[n])

\* C19 as stated: for every patch p of patch_make(A, B), the second and
\* later ones included, the texts of p.diffs that are not insertions,
\* concatenated, are the span of A that starts at p.start1 and has length
\* p.length1.
C19_PreImageInOriginal ==
  pc = "patch_make" =>
    \A i \in 1..Len(patchSeq) :
      diff_text1(patchSeq[i].diffs) = SpanOf(A, patchSeq[i])

\* C19, amended: they are that span of A for the first patch, and for every
\* later patch that span of the text the patches before it make of A; the
\* span has length1 characters, and all the patches make B of A.
C19_PreImageInRolledText ==
  pc = "patch_make" =>
    /\ \A i \in 1..Len(patchSeq) :
         /\ diff_text1(patchSeq[i].diffs) = SpanOf(Rolled(i - 1), patchSeq[i])
         /\ Len(diff_text1(patchSeq[i].diffs)) = patchSeq[i].length1
    /\ Rolled(Len(patchSeq)) = B

\* a second patch whose span is not where start1 points in A, because the
\* first patch made the text shorter
C19_Witness ==
  /\ pc = "patch_make"
  /\ Len(patchSeq) = 2
  /\ patchSeq[1].length2 < patchSeq[1].length1
  /\ diff_text1(patchSeq[2].diffs) # SpanOf(A, patchSeq[2])
  /\ diff_text1(patchSeq[2].diffs) = SpanOf(Rolled(1), patchSeq[2])

\* C20 as stated: after patch_splitMax on any patch sequence every patch of
\* the sequence has length1 at most Match_MaxBits.
C20_AllWithinMaxBits ==
  pc = "patch_splitMax" =>
    \A i \in 1..Len(patchSeq) : patchSeq[i].length1 <= Match_MaxBits

\* an equality, a deletion of more than 2 * Match_MaxBits characters, and
\* at most one more equality
MonsterDelete(p) ==
  /\ Len(p.diffs) \in {2, 3}
  /\ Op(p.diffs[1]) = DIFF_EQUAL
  /\ Op(p.diffs[2]) = DIFF_DELETE
  /\ Len(Text(p.diffs[2])) > 2 * Match_MaxBits
  /\ Len(p.diffs) = 3 => Op(p.diffs[3]) = DIFF_EQUAL

\* C20, amended: after patch_splitMax every patch has length1 at most
\* Match_MaxBits, except a patch made of an equality, a deletion of more
\* than 2 * Match_MaxBits characters and at most one more equality.
C20_WithinMaxBitsButMonster ==
  pc = "patch_splitMax" =>
    \A i \in 1..Len(patchSeq) :
      patchSeq[i].length1 <= Match_MaxBits \/ MonsterDelete(patchSeq[i])

\* a patch of 40 characters was split into patches within Match_MaxBits
C20_Witness ==
  /\ pc = "patch_splitMax"
  /\ Len(A) > Match_MaxBits
  /\ B = << >>
  /\ Len(patchSeq) >= 2
  /\ \A i \in 1..Len(patchSeq) : patchSeq[i].length1 <= Match_MaxBits

\* the turns of the loop of patch_apply, as the last call left them
Turns == outcome.turns

\* delta and the text before turn x: delta is 0 and the text is the padded
\* target before the first turn
DeltaBefore(x) == IF x = 1 THEN 0 ELSE Turns[x - 1].delta
TextBefore(x) ==
  IF x = 1 THEN NullPadding \o target \o NullPadding ELSE Turns[x - 1].text

\* turn x ended with flag false
Failed(x) == ~outcome.value.results[x]

\* turn x located its patch, and the text found is not the text expected
Approximate(x) ==
  /\ outcome.start_locs[x] # -1
  /\ Turns[x].found # diff_text1(Turns[x].patch.diffs)

\* C21: in patch_apply every patch that ends with flag false, whether it
\* was not located or located and then rejected, changes delta by exactly
\* -(length2 - length1) of that patch.
C21_FailedTurnShiftsDelta ==
  pc = "patch_apply_turns" =>
    \A x \in 1..Len(Turns) :
      Failed(x) =>
        Turns[x].delta - DeltaBefore(x)
          = -(Turns[x].patch.length2 - Turns[x].patch.length1)

\* the patches that are not located change delta by that much
C21_NotLocatedShiftsDelta ==
  pc = "patch_apply_turns" =>
    \A x \in 1..Len(Turns) :
      outcome.start_locs[x] = -1 =>
        /\ Failed(x)
        /\ Turns[x].delta - DeltaBefore(x)
             = -(Turns[x].patch.length2 - Turns[x].patch.length1)

\* a patch was located and then rejected, and delta is what locating left
C21_Rejected ==
  /\ pc = "patch_apply_turns"
  /\ \E x \in 1..Len(Turns) :
       /\ Failed(x)
       /\ outcome.start_locs[x] # -1
       /\ Turns[x].delta = outcome.start_locs[x] - (Turns[x].patch.start2 + DeltaBefore(x))

\* C22: in patch_apply a patch whose source text is located only
\* approximately, with the Levenshtein distance of the text found from the
\* text expected above Patch_DeleteThreshold of the length expected, gets
\* flag false and is not applied, whatever that length.
C22_FarMatchRejected ==
  pc = "patch_apply_turns" =>
    \A x \in 1..Len(Turns) :
      Approximate(x)
        /\ HalfDen * Turns[x].distance > Len(diff_text1(Turns[x].patch.diffs))
      => Failed(x) /\ Turns[x].text = TextBefore(x)

\* C29: in patch_apply a patch that ends with flag false leaves the text as
\* it was before that patch, and the text returned is the text the loop
\* left without the padding at its two ends.
C29_FailedTurnKeepsText ==
  pc = "patch_apply_turns" =>
    /\ \A x \in 1..Len(Turns) : Failed(x) => Turns[x].text = TextBefore(x)
    /\ Len(Turns) > 0 =>
         Turns[Len(Turns)].text
           = NullPadding \o outcome.value.text \o NullPadding

\* the number of insertions and deletions in an edit script
RECURSIVE ChangeCount(_)
ChangeCount(diffs) ==
  IF Len(diffs) = 0 THEN 0
  ELSE (IF Op(diffs[1]) = DIFF_EQUAL THEN 0 ELSE 1) + ChangeCount(Tail(diffs))

\* the number of insertions and deletions in the first k patches
RECURSIVE ChangesIn(_, _)
ChangesIn(patches, k) ==
  IF k = 0 THEN 0
  ELSE ChangesIn(patches, k - 1) + ChangeCount(patches[k].diffs)

\* edit x of the script is an equality between two changes
BetweenChanges(x) ==
  /\ 1 < x /\ x < Len(script)
  /\ Op(script[x]) = DIFF_EQUAL
  /\ Op(script[x - 1]) # DIFF_EQUAL
  /\ Op(script[x + 1]) # DIFF_EQUAL

\* the patches end at edit x: some first patches hold exactly the changes
\* before x, the others the changes after it
ClosesAt(x) ==
  \E k \in 1..Len(patchSeq) :
    ChangesIn(patchSeq, k) = ChangeCount(SubSeq(script, 1, x - 1))

\* C23: in patch_make an equality of 2 * Patch_Margin characters or more
\* between two changes closes the patch, so that the changes around it are in
\* different patches, and a shorter one stays in the patch.
C23_LongEqualCloses ==
  pc = "patch_make_diffs" =>
    \A x \in 1..Len(script) :
      BetweenChanges(x) =>
        (Len(Text(script[x])) >= 2 * Patch_Margin <=> ClosesAt(x))

\* what the loop does: only an equality longer than 2 * Patch_Margin closes
C23_LongerEqualCloses ==
  pc = "patch_make_diffs" =>
    \A x \in 1..Len(script) :
      BetweenChanges(x) =>
        (Len(Text(script[x])) > 2 * Patch_Margin <=> ClosesAt(x))

\* C24: whenever diff_halfMatch_(text1, text2) returns an array
\* [text1_a, text1_b, text2_a, text2_b, mid_common], text1_a + mid_common +
\* text1_b is text1, text2_a + mid_common + text2_b is text2 and mid_common
\* is at least half as long as the longer text; with Diff_Timeout <= 0 it
\* returns null.
C24_HalfMatchSplitsTexts ==
  pc = "diff_halfMatch_" =>
    /\ outcome.value # Null =>
         /\ Len(outcome.value) = 5
         /\ outcome.value[1] \o outcome.value[5] \o outcome.value[2] = A
         /\ outcome.value[3] \o outcome.value[5] \o outcome.value[4] = B
         /\ 2 * Len(outcome.value[5]) >= Max(Len(A), Len(B))
    /\ Diff_Timeout <= 0 => outcome.value = Null

\* a half match with text on both sides of the common middle in text1
C24_Witness ==
  /\ pc = "diff_halfMatch_"
  /\ outcome.value # Null
  /\ outcome.value[1] # << >>
  /\ outcome.value[2] # << >>
  /\ outcome.value[3] \o outcome.value[4] # << >>

\* C25: every time diff_bisect_ calls diff_bisectSplit_(text1, text2, x, y)
\* within diff_main, (x, y) is neither (0, 0) nor (|text1|, |text2|): both
\* calls diff_bisectSplit_ makes get shorter texts.
C25_SplitIsProper ==
  pc = "diff_bisect_" /\ outcome.texts # Null /\ outcome.point.found =>
    /\ <<outcome.point.x, outcome.point.y>> # <<0, 0>>
    /\ <<outcome.point.x, outcome.point.y>>
         # <<Len(outcome.texts[1]), Len(outcome.texts[2])>>
    /\ outcome.point.x \in 0..Len(outcome.texts[1])
    /\ outcome.point.y \in 0..Len(outcome.texts[2])

\* diff_bisect_ split two texts of 3 characters or more
C25_Witness ==
  /\ pc = "diff_bisect_"
  /\ outcome.texts # Null
  /\ outcome.point.found
  /\ Len(outcome.texts[1]) >= 3
  /\ Len(outcome.texts[2]) >= 3

\* text1 and text2 have the same first n characters
SamePrefix(text1, text2, n) == Substring(text1, 0, n) = Substring(text2, 0, n)

\* text1 and text2 have the same last n characters
SameSuffix(text1, text2, n) ==
  SubstringFrom(text1, Len(text1) - n) = SubstringFrom(text2, Len(text2) - n)

\* C26: diff_commonPrefix(a, b) is the largest n such that the first n
\* characters of a and b are the same, diff_commonSuffix(a, b) the largest n
\* such that their last n characters are the same; 0 when a or b is empty.
C26_LongestCommonEnds ==
  /\ pc = "diff_commonPrefix" =>
       /\ outcome.value \in 0..Min(Len(A), Len(B))
       /\ SamePrefix(A, B, outcome.value)
       /\ \A n \in (outcome.value + 1)..Min(Len(A), Len(B)) : ~SamePrefix(A, B, n)
  /\ pc = "diff_commonSuffix" =>
       /\ outcome.value \in 0..Min(Len(A), Len(B))
       /\ SameSuffix(A, B, outcome.value)
       /\ \A n \in (outcome.value + 1)..Min(Len(A), Len(B)) : ~SameSuffix(A, B, n)

\* a common prefix of 2 characters or more that is neither text
C26_Witness ==
  /\ pc = "diff_commonPrefix"
  /\ outcome.value >= 2
  /\ outcome.value < Min(Len(A), Len(B))

\* C27: diff_cleanupMerge, diff_cleanupSemantic,
\* diff_cleanupSemanticLossless and diff_cleanupEfficiency, applied to a
\* normalized edit script, leave its source text (the text of the edits that
\* are not insertions) and its destination text (the text of the edits that
\* are not deletions) as they were.
C27_CleanupKeepsTexts ==
  pc # "raw" => diff_text1(script) = A /\ diff_text2(script) = B

\* diff_cleanupSemantic rewrote the script
C27_Witness ==
  /\ pc = "diff_cleanupSemantic"
  /\ Len(script) >= 2
  /\ \E i \in 1..Len(script) : Len(Text(script[i])) > MaxEditLen + 1

\* C28: every patch of patch_make, and every patch there is after
\* patch_addPadding and after patch_splitMax, has for length1 the length of
\* the text of its edits that are not insertions and for length2 the length
\* of the text of its edits that are not deletions.
C28_LengthsMeasureEdits ==
  pc \in {"patch_make", "patch_addPadding", "patch_splitMax"} =>
    \A i \in 1..Len(patchSeq) :
      /\ patchSeq[i].length1 = Len(diff_text1(patchSeq[i].diffs))
      /\ patchSeq[i].length2 = Len(diff_text2(patchSeq[i].diffs))

\* the one patch that deletes a whole text was padded and then split
C28_Witness ==
  /\ pc = "patch_splitMax"
  /\ B = << >>
  /\ Len(patchSeq) >= 2
  /\ Text(patchSeq[1].diffs[1]) = NullPadding

\* a handler has run on the request
Handled == pc \in {"script.js", "app.js", "routes/api.js", "index.js"}

\* C30: for every request each handler of a timestamp route sends exactly
\* one JSON response, with one call of res.json and no error thrown: unix
\* and utc of a date, or the error "Invalid Date", never one after the
\* other; a request without date parameter gets unix and utc.
C30_OneResponse ==
  Handled =>
    /\ ~outcome.raised
    /\ outcome.calls = 1
    /\ Len(outcome.value) = 1
    /\ outcome.value[1] = ErrorBody
         \/ (DOMAIN outcome.value[1] = {"unix", "utc"}
             /\ ~outcome.value[1].unix.nan)

\* the handlers that return after the response they send do so
C30_OneResponseElsewhere == pc = "script.js" \/ C30_OneResponse

====
